---- MODULE Spec2Model ----
(***************************************************************************)
(* The triage chat backend of src/main.py and src/app/agent.py as a state  *)
(* machine: one request at a time is taken from idle to done.  The chat    *)
(* handler is cut at its one blocking step, the call of the external       *)
(* model, whose outcome (a completion, a malformed completion, an          *)
(* exception) is the environment's choice.                                 *)
(*                                                                         *)
(* A Python str is the sequence of its code points, so substring           *)
(* containment, str.lower, str.strip, str.format and the script ranges of  *)
(* detect_lang are computed on the characters themselves.  Optional[T] is  *)
(* a sequence of length 0 (None) or 1.                                      *)
(***************************************************************************)
EXTENDS Integers, Sequences, FiniteSets, TLC

\* the number of fragments a request text is put together from
MaxFrags == 2

\* ---- text: a Python str is the sequence of its code points ----

\* 'headache'
S_headache == <<104, 101, 97, 100, 97, 99, 104, 101>>

\* 'fever'
S_fever == <<102, 101, 118, 101, 114>>

\* 'cough'
S_cough == <<99, 111, 117, 103, 104>>

\* 'cold'
S_cold == <<99, 111, 108, 100>>

\* 'stomach_pain'
S_stomach_pain == <<115, 116, 111, 109, 97, 99, 104, 95, 112, 97, 105, 110>>

\* 'general'
S_general == <<103, 101, 110, 101, 114, 97, 108>>

\* 'common_cold'
S_common_cold == <<99, 111, 109, 109, 111, 110, 95, 99, 111, 108, 100>>

\* 'flu'
S_flu == <<102, 108, 117>>

\* the red-flag catalog, in catalog order
flags == <<
  \* 1: 'chest pain'
  [kw |-> <<99, 104, 101, 115, 116, 32, 112, 97, 105, 110>>, lang |-> "en"],
  \* 2: 'shortness of breath'
  [kw |-> <<115, 104, 111, 114, 116, 110, 101, 115, 115, 32, 111, 102, 32, 98, 114, 101, 97,
    116, 104>>, lang |-> "en"],
  \* 3: 'severe headache'
  [kw |-> <<115, 101, 118, 101, 114, 101, 32, 104, 101, 97, 100, 97, 99, 104, 101>>, lang |->
    "en"],
  \* 4: 'loss of consciousness'
  [kw |-> <<108, 111, 115, 115, 32, 111, 102, 32, 99, 111, 110, 115, 99, 105, 111, 117, 115,
    110, 101, 115, 115>>, lang |-> "en"],
  \* 5: 'stroke'
  [kw |-> <<115, 116, 114, 111, 107, 101>>, lang |-> "en"],
  \* 6: 'suicidal'
  [kw |-> <<115, 117, 105, 99, 105, 100, 97, 108>>, lang |-> "en"],
  \* 7: "can't breathe"
  [kw |-> <<99, 97, 110, 39, 116, 32, 98, 114, 101, 97, 116, 104, 101>>, lang |-> "en"],
  \* 8: 'heart attack'
  [kw |-> <<104, 101, 97, 114, 116, 32, 97, 116, 116, 97, 99, 107>>, lang |-> "en"],
  \* 9: 'severe bleeding'
  [kw |-> <<115, 101, 118, 101, 114, 101, 32, 98, 108, 101, 101, 100, 105, 110, 103>>, lang
    |-> "en"],
  \* 10: '\u10db\u10d9\u10d4\u10e0\u10d3\u10d8\u10e1 \u10e2\u10d9\u10d8\u10d5\u10d8\u10da\u10d8'
  [kw |-> <<4315, 4313, 4308, 4320, 4307, 4312, 4321, 32, 4322, 4313, 4312, 4309, 4312, 4314,
    4312>>, lang |-> "ka"],
  \* 11: '\u10e1\u10e3\u10dc\u10d7\u10e5\u10d5\u10d8\u10e1 \u10e3\u10d9\u10db\u10d0\u10e0\u10d8\u10e1\u10dd\u10d1\u10d0'
  [kw |-> <<4321, 4323, 4316, 4311, 4325, 4309, 4312, 4321, 32, 4323, 4313, 4315, 4304, 4320,
    4312, 4321, 4317, 4305, 4304>>, lang |-> "ka"],
  \* 12: '\u10eb\u10da\u10d8\u10d4\u10e0\u10d8 \u10d7\u10d0\u10d5\u10d8\u10e1 \u10e2\u10d9\u10d8\u10d5\u10d8\u10da\u10d8'
  [kw |-> <<4331, 4314, 4312, 4308, 4320, 4312, 32, 4311, 4304, 4309, 4312, 4321, 32, 4322,
    4313, 4312, 4309, 4312, 4314, 4312>>, lang |-> "ka"],
  \* 13: '\u10d1\u10dd\u10d3\u10d0\u10d5\u10e1'
  [kw |-> <<4305, 4317, 4307, 4304, 4309, 4321>>, lang |-> "ka"],
  \* 14: '\u10d7\u10d5\u10d8\u10d7\u10db\u10d9\u10d5\u10da\u10d4\u10da\u10dd\u10d1\u10d0'
  [kw |-> <<4311, 4309, 4312, 4311, 4315, 4313, 4309, 4314, 4308, 4314, 4317, 4305, 4304>>,
    lang |-> "ka"],
  \* 15: '\u10d2\u10e3\u10da\u10d8\u10e1 \u10e8\u10d4\u10e2\u10d4\u10d5\u10d0'
  [kw |-> <<4306, 4323, 4314, 4312, 4321, 32, 4328, 4308, 4322, 4308, 4309, 4304>>, lang |->
    "ka"],
  \* 16: '\u0431\u043e\u043b\u044c \u0432 \u0433\u0440\u0443\u0434\u0438'
  [kw |-> <<1073, 1086, 1083, 1100, 32, 1074, 32, 1075, 1088, 1091, 1076, 1080>>, lang |->
    "ru"],
  \* 17: '\u043e\u0434\u044b\u0448\u043a\u0430'
  [kw |-> <<1086, 1076, 1099, 1096, 1082, 1072>>, lang |-> "ru"],
  \* 18: '\u0441\u0438\u043b\u044c\u043d\u0430\u044f \u0433\u043e\u043b\u043e\u0432\u043d\u0430\u044f \u0431\u043e\u043b\u044c'
  [kw |-> <<1089, 1080, 1083, 1100, 1085, 1072, 1103, 32, 1075, 1086, 1083, 1086, 1074, 1085,
    1072, 1103, 32, 1073, 1086, 1083, 1100>>, lang |-> "ru"],
  \* 19: '\u043f\u043e\u0442\u0435\u0440\u044f \u0441\u043e\u0437\u043d\u0430\u043d\u0438\u044f'
  [kw |-> <<1087, 1086, 1090, 1077, 1088, 1103, 32, 1089, 1086, 1079, 1085, 1072, 1085, 1080,
    1103>>, lang |-> "ru"],
  \* 20: '\u0438\u043d\u0441\u0443\u043b\u044c\u0442'
  [kw |-> <<1080, 1085, 1089, 1091, 1083, 1100, 1090>>, lang |-> "ru"],
  \* 21: '\u0441\u0443\u0438\u0446\u0438\u0434'
  [kw |-> <<1089, 1091, 1080, 1094, 1080, 1076>>, lang |-> "ru"],
  \* 22: '\u0438\u043d\u0444\u0430\u0440\u043a\u0442'
  [kw |-> <<1080, 1085, 1092, 1072, 1088, 1082, 1090>>, lang |-> "ru"]
>>

\* the guideline table, in insertion (= iteration) order
DISEASE_GUIDELINES == <<
  [ condition |-> S_common_cold,
    symptoms |-> <<
      \* 'runny nose'
      <<114, 117, 110, 110, 121, 32, 110, 111, 115, 101>>,
      \* 'sneezing'
      <<115, 110, 101, 101, 122, 105, 110, 103>>,
      \* 'mild cough'
      <<109, 105, 108, 100, 32, 99, 111, 117, 103, 104>>,
      \* 'sore throat'
      <<115, 111, 114, 101, 32, 116, 104, 114, 111, 97, 116>>
    >>,
    guidance |-> [
      en |->
        \* 'Rest, fluids, OTC pain relievers. Usually resolves in 7-10 days.'
        <<82, 101, 115, 116, 44, 32, 102, 108, 117, 105, 100, 115, 44, 32, 79, 84, 67, 32,
          112, 97, 105, 110, 32, 114, 101, 108, 105, 101, 118, 101, 114, 115, 46, 32, 85, 115,
          117, 97, 108, 108, 121, 32, 114, 101, 115, 111, 108, 118, 101, 115, 32, 105, 110, 32,
          55, 45, 49, 48, 32, 100, 97, 121, 115, 46>>,
      ka |->
        \* '\u10d3\u10d0\u10e1\u10d5\u10d4\u10dc\u10d4\u10d1\u10d0, \u10d1\u10d4\u10d5\u10e0\u10d8 \u10e1\u10d8\u10d7\u10ee\u10d4, \u10e2\u10d9\u10d8\u10d5\u10d8\u10da\u10d2\u10d0\u10db\u10d0\u10d7\u10da\u10db\u10e8\u10e0\u10d0\u10da\u10d4\u10d1\u10d4\u10da\u10d8. \u10e9\u10d5\u10d4\u10e3\u10da\u10d4\u10d1\u10e0\u10d8\u10d5 7-10 \u10d3\u10e6\u10d4\u10e8\u10d8 \u10d2\u10d0\u10d3\u10d8\u10e1.'
        <<4307, 4304, 4321, 4309, 4308, 4316, 4308, 4305, 4304, 44, 32, 4305, 4308, 4309,
          4320, 4312, 32, 4321, 4312, 4311, 4334, 4308, 44, 32, 4322, 4313, 4312, 4309, 4312,
          4314, 4306, 4304, 4315, 4304, 4311, 4314, 4315, 4328, 4320, 4304, 4314, 4308, 4305,
          4308, 4314, 4312, 46, 32, 4329, 4309, 4308, 4323, 4314, 4308, 4305, 4320, 4312, 4309,
          32, 55, 45, 49, 48, 32, 4307, 4326, 4308, 4328, 4312, 32, 4306, 4304, 4307, 4312,
          4321, 46>>,
      ru |->
        \* '\u041f\u043e\u043a\u043e\u0439, \u043e\u0431\u0438\u043b\u044c\u043d\u043e\u0435 \u043f\u0438\u0442\u044c\u0435, \u0431\u0435\u0437\u0440\u0435\u0446\u0435\u043f\u0442\u0443\u0440\u043d\u044b\u0435 \u043e\u0431\u0435\u0437\u0431\u043e\u043b\u0438\u0432\u0430\u044e\u0449\u0438\u0435. \u041e\u0431\u044b\u0447\u043d\u043e \u043f\u0440\u043e\u0445\u043e\u0434\u0438\u0442 \u0437\u0430 7-10 \u0434\u043d\u0435\u0439.'
        <<1055, 1086, 1082, 1086, 1081, 44, 32, 1086, 1073, 1080, 1083, 1100, 1085, 1086,
          1077, 32, 1087, 1080, 1090, 1100, 1077, 44, 32, 1073, 1077, 1079, 1088, 1077, 1094,
          1077, 1087, 1090, 1091, 1088, 1085, 1099, 1077, 32, 1086, 1073, 1077, 1079, 1073,
          1086, 1083, 1080, 1074, 1072, 1102, 1097, 1080, 1077, 46, 32, 1054, 1073, 1099, 1095,
          1085, 1086, 32, 1087, 1088, 1086, 1093, 1086, 1076, 1080, 1090, 32, 1079, 1072, 32,
          55, 45, 49, 48, 32, 1076, 1085, 1077, 1081, 46>>
    ],
    red_flags |-> <<
      \* 'high fever >38.5\xb0C'
      <<104, 105, 103, 104, 32, 102, 101, 118, 101, 114, 32, 62, 51, 56, 46, 53, 176, 67>>,
      \* 'difficulty breathing'
      <<100, 105, 102, 102, 105, 99, 117, 108, 116, 121, 32, 98, 114, 101, 97, 116, 104, 105,
        110, 103>>,
      \* 'severe headache'
      <<115, 101, 118, 101, 114, 101, 32, 104, 101, 97, 100, 97, 99, 104, 101>>
    >> ],
  [ condition |-> S_flu,
    symptoms |-> <<
      \* 'fever'
      <<102, 101, 118, 101, 114>>,
      \* 'body aches'
      <<98, 111, 100, 121, 32, 97, 99, 104, 101, 115>>,
      \* 'fatigue'
      <<102, 97, 116, 105, 103, 117, 101>>,
      \* 'dry cough'
      <<100, 114, 121, 32, 99, 111, 117, 103, 104>>
    >>,
    guidance |-> [
      en |->
        \* 'Rest, fluids, fever reducers. Antiviral drugs may help if started early.'
        <<82, 101, 115, 116, 44, 32, 102, 108, 117, 105, 100, 115, 44, 32, 102, 101, 118, 101,
          114, 32, 114, 101, 100, 117, 99, 101, 114, 115, 46, 32, 65, 110, 116, 105, 118, 105,
          114, 97, 108, 32, 100, 114, 117, 103, 115, 32, 109, 97, 121, 32, 104, 101, 108, 112,
          32, 105, 102, 32, 115, 116, 97, 114, 116, 101, 100, 32, 101, 97, 114, 108, 121, 46>>,
      ka |->
        \* '\u10d3\u10d0\u10e1\u10d5\u10d4\u10dc\u10d4\u10d1\u10d0, \u10e1\u10d8\u10d7\u10ee\u10d4\u10d4\u10d1\u10d8, \u10ea\u10ee\u10d4\u10da\u10d4\u10d1\u10d8\u10e1 \u10e8\u10d4\u10db\u10d0\u10db\u10ea\u10d8\u10e0\u10d4\u10d1\u10d4\u10da\u10d8. \u10d0\u10dc\u10e2\u10d8\u10d5\u10d8\u10e0\u10e3\u10e1\u10e3\u10da\u10d8 \u10d0\u10d3\u10e0\u10d4 \u10d3\u10d0\u10ec\u10e7\u10d4\u10d1\u10d8\u10d7 \u10e8\u10d4\u10d8\u10eb\u10da\u10d4\u10d1\u10d0 \u10d3\u10d0\u10d4\u10ee\u10db\u10d0\u10e0\u10dd\u10e1.'
        <<4307, 4304, 4321, 4309, 4308, 4316, 4308, 4305, 4304, 44, 32, 4321, 4312, 4311,
          4334, 4308, 4308, 4305, 4312, 44, 32, 4330, 4334, 4308, 4314, 4308, 4305, 4312, 4321,
          32, 4328, 4308, 4315, 4304, 4315, 4330, 4312, 4320, 4308, 4305, 4308, 4314, 4312, 46,
          32, 4304, 4316, 4322, 4312, 4309, 4312, 4320, 4323, 4321, 4323, 4314, 4312, 32, 4304,
          4307, 4320, 4308, 32, 4307, 4304, 4332, 4327, 4308, 4305, 4312, 4311, 32, 4328, 4308,
          4312, 4331, 4314, 4308, 4305, 4304, 32, 4307, 4304, 4308, 4334, 4315, 4304, 4320,
          4317, 4321, 46>>,
      ru |->
        \* '\u041f\u043e\u043a\u043e\u0439, \u0436\u0438\u0434\u043a\u043e\u0441\u0442\u0438, \u0436\u0430\u0440\u043e\u043f\u043e\u043d\u0438\u0436\u0430\u044e\u0449\u0438\u0435. \u041f\u0440\u043e\u0442\u0438\u0432\u043e\u0432\u0438\u0440\u0443\u0441\u043d\u044b\u0435 \u043f\u0440\u0435\u043f\u0430\u0440\u0430\u0442\u044b \u043c\u043e\u0433\u0443\u0442 \u043f\u043e\u043c\u043e\u0447\u044c \u043f\u0440\u0438 \u0440\u0430\u043d\u043d\u0435\u043c \u043d\u0430\u0447\u0430\u043b\u0435.'
        <<1055, 1086, 1082, 1086, 1081, 44, 32, 1078, 1080, 1076, 1082, 1086, 1089, 1090,
          1080, 44, 32, 1078, 1072, 1088, 1086, 1087, 1086, 1085, 1080, 1078, 1072, 1102, 1097,
          1080, 1077, 46, 32, 1055, 1088, 1086, 1090, 1080, 1074, 1086, 1074, 1080, 1088, 1091,
          1089, 1085, 1099, 1077, 32, 1087, 1088, 1077, 1087, 1072, 1088, 1072, 1090, 1099, 32,
          1084, 1086, 1075, 1091, 1090, 32, 1087, 1086, 1084, 1086, 1095, 1100, 32, 1087, 1088,
          1080, 32, 1088, 1072, 1085, 1085, 1077, 1084, 32, 1085, 1072, 1095, 1072, 1083, 1077,
          46>>
    ],
    red_flags |-> <<
      \* 'difficulty breathing'
      <<100, 105, 102, 102, 105, 99, 117, 108, 116, 121, 32, 98, 114, 101, 97, 116, 104, 105,
        110, 103>>,
      \* 'persistent high fever'
      <<112, 101, 114, 115, 105, 115, 116, 101, 110, 116, 32, 104, 105, 103, 104, 32, 102,
        101, 118, 101, 114>>,
      \* 'severe dehydration'
      <<115, 101, 118, 101, 114, 101, 32, 100, 101, 104, 121, 100, 114, 97, 116, 105, 111,
        110>>
    >> ],
  [ condition |-> S_headache,
    symptoms |-> <<
      \* 'head pain'
      <<104, 101, 97, 100, 32, 112, 97, 105, 110>>,
      \* 'tension'
      <<116, 101, 110, 115, 105, 111, 110>>,
      \* 'migraine'
      <<109, 105, 103, 114, 97, 105, 110, 101>>
    >>,
    guidance |-> [
      en |->
        \* 'Rest in dark room, hydration, OTC pain relievers. Identify triggers.'
        <<82, 101, 115, 116, 32, 105, 110, 32, 100, 97, 114, 107, 32, 114, 111, 111, 109, 44,
          32, 104, 121, 100, 114, 97, 116, 105, 111, 110, 44, 32, 79, 84, 67, 32, 112, 97, 105,
          110, 32, 114, 101, 108, 105, 101, 118, 101, 114, 115, 46, 32, 73, 100, 101, 110, 116,
          105, 102, 121, 32, 116, 114, 105, 103, 103, 101, 114, 115, 46>>,
      ka |->
        \* '\u10d3\u10d0\u10e1\u10d5\u10d4\u10dc\u10d4\u10d1\u10d0 \u10db\u10e3\u10e5 \u10dd\u10d7\u10d0\u10ee\u10e8\u10d8, \u10f0\u10d8\u10d3\u10e0\u10d0\u10e2\u10d0\u10ea\u10d8\u10d0, \u10e2\u10d9\u10d8\u10d5\u10d8\u10da\u10d2\u10d0\u10db\u10d0\u10d7\u10d8\u10e1\u10d4\u10d1\u10d4\u10da\u10d8. \u10d2\u10d0\u10db\u10dd\u10db\u10ec\u10d5\u10d4\u10d5\u10d8 \u10e4\u10d0\u10e5\u10e2\u10dd\u10e0\u10d4\u10d1\u10d8\u10e1 \u10d8\u10d3\u10d4\u10dc\u10e2\u10d8\u10e4\u10d8\u10ea\u10d8\u10e0\u10d4\u10d1\u10d0.'
        <<4307, 4304, 4321, 4309, 4308, 4316, 4308, 4305, 4304, 32, 4315, 4323, 4325, 32,
          4317, 4311, 4304, 4334, 4328, 4312, 44, 32, 4336, 4312, 4307, 4320, 4304, 4322, 4304,
          4330, 4312, 4304, 44, 32, 4322, 4313, 4312, 4309, 4312, 4314, 4306, 4304, 4315, 4304,
          4311, 4312, 4321, 4308, 4305, 4308, 4314, 4312, 46, 32, 4306, 4304, 4315, 4317, 4315,
          4332, 4309, 4308, 4309, 4312, 32, 4324, 4304, 4325, 4322, 4317, 4320, 4308, 4305,
          4312, 4321, 32, 4312, 4307, 4308, 4316, 4322, 4312, 4324, 4312, 4330, 4312, 4320,
          4308, 4305, 4304, 46>>,
      ru |->
        \* '\u041e\u0442\u0434\u044b\u0445 \u0432 \u0442\u0435\u043c\u043d\u043e\u0439 \u043a\u043e\u043c\u043d\u0430\u0442\u0435, \u0443\u0432\u043b\u0430\u0436\u043d\u0435\u043d\u0438\u0435, \u0431\u0435\u0437\u0440\u0435\u0446\u0435\u043f\u0442\u0443\u0440\u043d\u044b\u0435 \u043e\u0431\u0435\u0437\u0431\u043e\u043b\u0438\u0432\u0430\u044e\u0449\u0438\u0435. \u0412\u044b\u044f\u0432\u043b\u0435\u043d\u0438\u0435 \u0442\u0440\u0438\u0433\u0433\u0435\u0440\u043e\u0432.'
        <<1054, 1090, 1076, 1099, 1093, 32, 1074, 32, 1090, 1077, 1084, 1085, 1086, 1081, 32,
          1082, 1086, 1084, 1085, 1072, 1090, 1077, 44, 32, 1091, 1074, 1083, 1072, 1078, 1085,
          1077, 1085, 1080, 1077, 44, 32, 1073, 1077, 1079, 1088, 1077, 1094, 1077, 1087, 1090,
          1091, 1088, 1085, 1099, 1077, 32, 1086, 1073, 1077, 1079, 1073, 1086, 1083, 1080,
          1074, 1072, 1102, 1097, 1080, 1077, 46, 32, 1042, 1099, 1103, 1074, 1083, 1077, 1085,
          1080, 1077, 32, 1090, 1088, 1080, 1075, 1075, 1077, 1088, 1086, 1074, 46>>
    ],
    red_flags |-> <<
      \* 'sudden severe headache'
      <<115, 117, 100, 100, 101, 110, 32, 115, 101, 118, 101, 114, 101, 32, 104, 101, 97, 100,
        97, 99, 104, 101>>,
      \* 'fever with headache'
      <<102, 101, 118, 101, 114, 32, 119, 105, 116, 104, 32, 104, 101, 97, 100, 97, 99, 104,
        101>>,
      \* 'vision changes'
      <<118, 105, 115, 105, 111, 110, 32, 99, 104, 97, 110, 103, 101, 115>>
    >> ],
  [ condition |-> S_stomach_pain,
    symptoms |-> <<
      \* 'stomach ache'
      <<115, 116, 111, 109, 97, 99, 104, 32, 97, 99, 104, 101>>,
      \* 'abdominal pain'
      <<97, 98, 100, 111, 109, 105, 110, 97, 108, 32, 112, 97, 105, 110>>,
      \* 'nausea'
      <<110, 97, 117, 115, 101, 97>>,
      \* 'indigestion'
      <<105, 110, 100, 105, 103, 101, 115, 116, 105, 111, 110>>
    >>,
    guidance |-> [
      en |->
        \* 'Light diet, clear fluids, rest. Avoid dairy and fatty foods.'
        <<76, 105, 103, 104, 116, 32, 100, 105, 101, 116, 44, 32, 99, 108, 101, 97, 114, 32,
          102, 108, 117, 105, 100, 115, 44, 32, 114, 101, 115, 116, 46, 32, 65, 118, 111, 105,
          100, 32, 100, 97, 105, 114, 121, 32, 97, 110, 100, 32, 102, 97, 116, 116, 121, 32,
          102, 111, 111, 100, 115, 46>>,
      ka |->
        \* '\u10db\u10e1\u10e3\u10d1\u10e3\u10e5\u10d8 \u10d3\u10d8\u10d4\u10e2\u10d0, \u10d2\u10d0\u10db\u10ed\u10d5\u10d8\u10e0\u10d5\u10d0\u10da\u10d4 \u10e1\u10d8\u10d7\u10ee\u10d4\u10d4\u10d1\u10d8, \u10d3\u10d0\u10e1\u10d5\u10d4\u10dc\u10d4\u10d1\u10d0. \u10d0\u10d5\u10d0\u10e0\u10d8\u10d3\u10d4\u10d7 \u10e0\u10eb\u10d8\u10e1 \u10de\u10e0\u10dd\u10d3\u10e3\u10e5\u10e2\u10d4\u10d1\u10d8 \u10d3\u10d0 \u10ea\u10ee\u10d8\u10db\u10d8\u10d0\u10dc\u10d8 \u10e1\u10d0\u10d9\u10d5\u10d4\u10d1\u10d8.'
        <<4315, 4321, 4323, 4305, 4323, 4325, 4312, 32, 4307, 4312, 4308, 4322, 4304, 44, 32,
          4306, 4304, 4315, 4333, 4309, 4312, 4320, 4309, 4304, 4314, 4308, 32, 4321, 4312,
          4311, 4334, 4308, 4308, 4305, 4312, 44, 32, 4307, 4304, 4321, 4309, 4308, 4316, 4308,
          4305, 4304, 46, 32, 4304, 4309, 4304, 4320, 4312, 4307, 4308, 4311, 32, 4320, 4331,
          4312, 4321, 32, 4318, 4320, 4317, 4307, 4323, 4325, 4322, 4308, 4305, 4312, 32, 4307,
          4304, 32, 4330, 4334, 4312, 4315, 4312, 4304, 4316, 4312, 32, 4321, 4304, 4313, 4309,
          4308, 4305, 4312, 46>>,
      ru |->
        \* '\u041b\u0435\u0433\u043a\u0430\u044f \u0434\u0438\u0435\u0442\u0430, \u043f\u0440\u043e\u0437\u0440\u0430\u0447\u043d\u044b\u0435 \u0436\u0438\u0434\u043a\u043e\u0441\u0442\u0438, \u043f\u043e\u043a\u043e\u0439. \u0418\u0437\u0431\u0435\u0433\u0430\u0439\u0442\u0435 \u043c\u043e\u043b\u043e\u0447\u043d\u044b\u0445 \u0438 \u0436\u0438\u0440\u043d\u044b\u0445 \u043f\u0440\u043e\u0434\u0443\u043a\u0442\u043e\u0432.'
        <<1051, 1077, 1075, 1082, 1072, 1103, 32, 1076, 1080, 1077, 1090, 1072, 44, 32, 1087,
          1088, 1086, 1079, 1088, 1072, 1095, 1085, 1099, 1077, 32, 1078, 1080, 1076, 1082,
          1086, 1089, 1090, 1080, 44, 32, 1087, 1086, 1082, 1086, 1081, 46, 32, 1048, 1079,
          1073, 1077, 1075, 1072, 1081, 1090, 1077, 32, 1084, 1086, 1083, 1086, 1095, 1085,
          1099, 1093, 32, 1080, 32, 1078, 1080, 1088, 1085, 1099, 1093, 32, 1087, 1088, 1086,
          1076, 1091, 1082, 1090, 1086, 1074, 46>>
    ],
    red_flags |-> <<
      \* 'severe pain'
      <<115, 101, 118, 101, 114, 101, 32, 112, 97, 105, 110>>,
      \* 'vomiting blood'
      <<118, 111, 109, 105, 116, 105, 110, 103, 32, 98, 108, 111, 111, 100>>,
      \* 'high fever'
      <<104, 105, 103, 104, 32, 102, 101, 118, 101, 114>>,
      \* 'severe dehydration'
      <<115, 101, 118, 101, 114, 101, 32, 100, 101, 104, 121, 100, 114, 97, 116, 105, 111,
        110>>
    >> ]
>>

\* the classifier's keyword table, in insertion (= iteration) order
symptom_keywords == <<
  [ condition |-> S_headache,
    keywords |-> <<
      \* 'headache'
      <<104, 101, 97, 100, 97, 99, 104, 101>>,
      \* 'head pain'
      <<104, 101, 97, 100, 32, 112, 97, 105, 110>>,
      \* 'migraine'
      <<109, 105, 103, 114, 97, 105, 110, 101>>,
      \* '\u10d7\u10d0\u10d5\u10d8\u10e1 \u10e2\u10d9\u10d8\u10d5\u10d8\u10da\u10d8'
      <<4311, 4304, 4309, 4312, 4321, 32, 4322, 4313, 4312, 4309, 4312, 4314, 4312>>,
      \* '\u0433\u043e\u043b\u043e\u0432\u043d\u0430\u044f \u0431\u043e\u043b\u044c'
      <<1075, 1086, 1083, 1086, 1074, 1085, 1072, 1103, 32, 1073, 1086, 1083, 1100>>
    >> ],
  [ condition |-> S_fever,
    keywords |-> <<
      \* 'fever'
      <<102, 101, 118, 101, 114>>,
      \* 'hot'
      <<104, 111, 116>>,
      \* 'temperature'
      <<116, 101, 109, 112, 101, 114, 97, 116, 117, 114, 101>>,
      \* '\u10ea\u10ee\u10d4\u10da\u10d4\u10d1\u10d0'
      <<4330, 4334, 4308, 4314, 4308, 4305, 4304>>,
      \* '\u043b\u0438\u0445\u043e\u0440\u0430\u0434\u043a\u0430'
      <<1083, 1080, 1093, 1086, 1088, 1072, 1076, 1082, 1072>>
    >> ],
  [ condition |-> S_cough,
    keywords |-> <<
      \* 'cough'
      <<99, 111, 117, 103, 104>>,
      \* 'coughing'
      <<99, 111, 117, 103, 104, 105, 110, 103>>,
      \* '\u10ee\u10d5\u10d4\u10da\u10d0'
      <<4334, 4309, 4308, 4314, 4304>>,
      \* '\u043a\u0430\u0448\u0435\u043b\u044c'
      <<1082, 1072, 1096, 1077, 1083, 1100>>
    >> ],
  [ condition |-> S_cold,
    keywords |-> <<
      \* 'cold'
      <<99, 111, 108, 100>>,
      \* 'runny nose'
      <<114, 117, 110, 110, 121, 32, 110, 111, 115, 101>>,
      \* 'sneezing'
      <<115, 110, 101, 101, 122, 105, 110, 103>>,
      \* '\u10ea\u10d8\u10d5\u10d8'
      <<4330, 4312, 4309, 4312>>,
      \* '\u043f\u0440\u043e\u0441\u0442\u0443\u0434\u0430'
      <<1087, 1088, 1086, 1089, 1090, 1091, 1076, 1072>>
    >> ],
  [ condition |-> S_stomach_pain,
    keywords |-> <<
      \* 'stomach'
      <<115, 116, 111, 109, 97, 99, 104>>,
      \* 'belly'
      <<98, 101, 108, 108, 121>>,
      \* 'abdominal'
      <<97, 98, 100, 111, 109, 105, 110, 97, 108>>,
      \* 'nausea'
      <<110, 97, 117, 115, 101, 97>>,
      \* '\u10d9\u10e3\u10ed\u10d8'
      <<4313, 4323, 4333, 4312>>,
      \* '\u0436\u0438\u0432\u043e\u0442'
      <<1078, 1080, 1074, 1086, 1090>>,
      \* '\u0442\u043e\u0448\u043d\u043e\u0442\u0430'
      <<1090, 1086, 1096, 1085, 1086, 1090, 1072>>
    >> ]
>>

high_urgency_keywords == <<
  \* 'severe'
  <<115, 101, 118, 101, 114, 101>>,
  \* 'intense'
  <<105, 110, 116, 101, 110, 115, 101>>,
  \* "can't"
  <<99, 97, 110, 39, 116>>,
  \* 'unable'
  <<117, 110, 97, 98, 108, 101>>,
  \* 'emergency'
  <<101, 109, 101, 114, 103, 101, 110, 99, 121>>,
  \* '\u10eb\u10da\u10d8\u10d4\u10e0\u10d8'
  <<4331, 4314, 4312, 4308, 4320, 4312>>,
  \* '\u0441\u0438\u043b\u044c\u043d\u044b\u0439'
  <<1089, 1080, 1083, 1100, 1085, 1099, 1081>>
>>

\* follow-up questions keyed by symptom, then language
questions ==
  (S_headache :> [
      en |-> <<
          \* 'How would you rate the pain on a scale of 1-10?'
          <<72, 111, 119, 32, 119, 111, 117, 108, 100, 32, 121, 111, 117, 32, 114, 97, 116,
            101, 32, 116, 104, 101, 32, 112, 97, 105, 110, 32, 111, 110, 32, 97, 32, 115, 99,
            97, 108, 101, 32, 111, 102, 32, 49, 45, 49, 48, 63>>
        >>,
      ka |-> <<
          \* '\u10e0\u10dd\u10d2\u10dd\u10e0 \u10e8\u10d4\u10d0\u10e4\u10d0\u10e1\u10d4\u10d1\u10d3\u10d8\u10d7 \u10e2\u10d9\u10d8\u10d5\u10d8\u10da\u10e1 1-10 \u10e8\u10d9\u10d0\u10da\u10d0\u10d6\u10d4?'
          <<4320, 4317, 4306, 4317, 4320, 32, 4328, 4308, 4304, 4324, 4304, 4321, 4308, 4305,
            4307, 4312, 4311, 32, 4322, 4313, 4312, 4309, 4312, 4314, 4321, 32, 49, 45, 49, 48,
            32, 4328, 4313, 4304, 4314, 4304, 4310, 4308, 63>>
        >>,
      ru |-> <<
          \* '\u041a\u0430\u043a \u0431\u044b \u0432\u044b \u043e\u0446\u0435\u043d\u0438\u043b\u0438 \u0431\u043e\u043b\u044c \u043f\u043e \u0448\u043a\u0430\u043b\u0435 \u043e\u0442 1 \u0434\u043e 10?'
          <<1050, 1072, 1082, 32, 1073, 1099, 32, 1074, 1099, 32, 1086, 1094, 1077, 1085,
            1080, 1083, 1080, 32, 1073, 1086, 1083, 1100, 32, 1087, 1086, 32, 1096, 1082, 1072,
            1083, 1077, 32, 1086, 1090, 32, 49, 32, 1076, 1086, 32, 49, 48, 63>>
        >>
    ]) @@
  (S_fever :> [
      en |-> <<
          \* "What's your current temperature?"
          <<87, 104, 97, 116, 39, 115, 32, 121, 111, 117, 114, 32, 99, 117, 114, 114, 101,
            110, 116, 32, 116, 101, 109, 112, 101, 114, 97, 116, 117, 114, 101, 63>>
        >>,
      ka |-> <<
          \* '\u10e0\u10d0 \u10d0\u10e0\u10d8\u10e1 \u10d7\u10e5\u10d5\u10d4\u10dc\u10d8 \u10d0\u10ee\u10da\u10d0\u10dc\u10d3\u10d4\u10da\u10d8 \u10e2\u10d4\u10db\u10de\u10d4\u10e0\u10d0\u10e2\u10e3\u10e0\u10d0?'
          <<4320, 4304, 32, 4304, 4320, 4312, 4321, 32, 4311, 4325, 4309, 4308, 4316, 4312,
            32, 4304, 4334, 4314, 4304, 4316, 4307, 4308, 4314, 4312, 32, 4322, 4308, 4315,
            4318, 4308, 4320, 4304, 4322, 4323, 4320, 4304, 63>>
        >>,
      ru |-> <<
          \* '\u041a\u0430\u043a\u0430\u044f \u0443 \u0432\u0430\u0441 \u0441\u0435\u0439\u0447\u0430\u0441 \u0442\u0435\u043c\u043f\u0435\u0440\u0430\u0442\u0443\u0440\u0430?'
          <<1050, 1072, 1082, 1072, 1103, 32, 1091, 32, 1074, 1072, 1089, 32, 1089, 1077,
            1081, 1095, 1072, 1089, 32, 1090, 1077, 1084, 1087, 1077, 1088, 1072, 1090, 1091,
            1088, 1072, 63>>
        >>
    ]) @@
  (S_cough :> [
      en |-> <<
          \* 'Is the cough dry or with phlegm?'
          <<73, 115, 32, 116, 104, 101, 32, 99, 111, 117, 103, 104, 32, 100, 114, 121, 32,
            111, 114, 32, 119, 105, 116, 104, 32, 112, 104, 108, 101, 103, 109, 63>>
        >>,
      ka |-> <<
          \* '\u10ee\u10d5\u10d4\u10da\u10d0 \u10db\u10e8\u10e0\u10d0\u10da\u10d8\u10d0 \u10d7\u10e3 \u10d9\u10d0\u10d5\u10d4\u10d1\u10d8\u10d7?'
          <<4334, 4309, 4308, 4314, 4304, 32, 4315, 4328, 4320, 4304, 4314, 4312, 4304, 32,
            4311, 4323, 32, 4313, 4304, 4309, 4308, 4305, 4312, 4311, 63>>
        >>,
      ru |-> <<
          \* '\u041a\u0430\u0448\u0435\u043b\u044c \u0441\u0443\u0445\u043e\u0439 \u0438\u043b\u0438 \u0441 \u043c\u043e\u043a\u0440\u043e\u0442\u043e\u0439?'
          <<1050, 1072, 1096, 1077, 1083, 1100, 32, 1089, 1091, 1093, 1086, 1081, 32, 1080,
            1083, 1080, 32, 1089, 32, 1084, 1086, 1082, 1088, 1086, 1090, 1086, 1081, 63>>
        >>
    ]) @@
  (S_stomach_pain :> [
      en |-> <<
          \* 'When did the stomach pain start?'
          <<87, 104, 101, 110, 32, 100, 105, 100, 32, 116, 104, 101, 32, 115, 116, 111, 109,
            97, 99, 104, 32, 112, 97, 105, 110, 32, 115, 116, 97, 114, 116, 63>>
        >>,
      ka |-> <<
          \* '\u10e0\u10dd\u10d3\u10d8\u10e1 \u10d3\u10d0\u10d8\u10ec\u10e7\u10dd \u10d9\u10e3\u10ed\u10d8\u10e1 \u10e2\u10d9\u10d8\u10d5\u10d8\u10da\u10d8?'
          <<4320, 4317, 4307, 4312, 4321, 32, 4307, 4304, 4312, 4332, 4327, 4317, 32, 4313,
            4323, 4333, 4312, 4321, 32, 4322, 4313, 4312, 4309, 4312, 4314, 4312, 63>>
        >>,
      ru |-> <<
          \* '\u041a\u043e\u0433\u0434\u0430 \u043d\u0430\u0447\u0430\u043b\u0430\u0441\u044c \u0431\u043e\u043b\u044c \u0432 \u0436\u0438\u0432\u043e\u0442\u0435?'
          <<1050, 1086, 1075, 1076, 1072, 32, 1085, 1072, 1095, 1072, 1083, 1072, 1089, 1100,
            32, 1073, 1086, 1083, 1100, 32, 1074, 32, 1078, 1080, 1074, 1086, 1090, 1077, 63>>
        >>
    ])

\* suggested actions keyed by symptom, then language
actions ==
  (S_headache :> [
      en |-> <<
          \* 'Rest in a quiet, dark room'
          <<82, 101, 115, 116, 32, 105, 110, 32, 97, 32, 113, 117, 105, 101, 116, 44, 32, 100,
            97, 114, 107, 32, 114, 111, 111, 109>>,
          \* 'Stay hydrated'
          <<83, 116, 97, 121, 32, 104, 121, 100, 114, 97, 116, 101, 100>>,
          \* 'Consider over-the-counter pain relief'
          <<67, 111, 110, 115, 105, 100, 101, 114, 32, 111, 118, 101, 114, 45, 116, 104, 101,
            45, 99, 111, 117, 110, 116, 101, 114, 32, 112, 97, 105, 110, 32, 114, 101, 108, 105,
            101, 102>>
        >>,
      ka |-> <<
          \* '\u10d3\u10d0\u10d8\u10e1\u10d5\u10d4\u10dc\u10d4\u10d7 \u10db\u10e8\u10d5\u10d8\u10d3, \u10db\u10e3\u10e5 \u10dd\u10d7\u10d0\u10ee\u10e8\u10d8'
          <<4307, 4304, 4312, 4321, 4309, 4308, 4316, 4308, 4311, 32, 4315, 4328, 4309, 4312,
            4307, 44, 32, 4315, 4323, 4325, 32, 4317, 4311, 4304, 4334, 4328, 4312>>,
          \* '\u10d3\u10d0\u10e0\u10e9\u10d8\u10d7 \u10f0\u10d8\u10d3\u10e0\u10d0\u10e2\u10d4\u10d1\u10e3\u10da\u10d8'
          <<4307, 4304, 4320, 4329, 4312, 4311, 32, 4336, 4312, 4307, 4320, 4304, 4322, 4308,
            4305, 4323, 4314, 4312>>,
          \* '\u10d2\u10d0\u10dc\u10d8\u10ee\u10d8\u10da\u10d4\u10d7 \u10e2\u10d9\u10d8\u10d5\u10d8\u10da\u10d2\u10d0\u10db\u10d0\u10d7\u10d8\u10e1\u10d4\u10d1\u10d4\u10da\u10d8'
          <<4306, 4304, 4316, 4312, 4334, 4312, 4314, 4308, 4311, 32, 4322, 4313, 4312, 4309,
            4312, 4314, 4306, 4304, 4315, 4304, 4311, 4312, 4321, 4308, 4305, 4308, 4314, 4312>>
        >>,
      ru |-> <<
          \* '\u041e\u0442\u0434\u043e\u0445\u043d\u0438\u0442\u0435 \u0432 \u0442\u0438\u0445\u043e\u0439, \u0442\u0435\u043c\u043d\u043e\u0439 \u043a\u043e\u043c\u043d\u0430\u0442\u0435'
          <<1054, 1090, 1076, 1086, 1093, 1085, 1080, 1090, 1077, 32, 1074, 32, 1090, 1080,
            1093, 1086, 1081, 44, 32, 1090, 1077, 1084, 1085, 1086, 1081, 32, 1082, 1086, 1084,
            1085, 1072, 1090, 1077>>,
          \* '\u041f\u0435\u0439\u0442\u0435 \u0431\u043e\u043b\u044c\u0448\u0435 \u0436\u0438\u0434\u043a\u043e\u0441\u0442\u0438'
          <<1055, 1077, 1081, 1090, 1077, 32, 1073, 1086, 1083, 1100, 1096, 1077, 32, 1078,
            1080, 1076, 1082, 1086, 1089, 1090, 1080>>,
          \* '\u0420\u0430\u0441\u0441\u043c\u043e\u0442\u0440\u0438\u0442\u0435 \u0431\u0435\u0437\u0440\u0435\u0446\u0435\u043f\u0442\u0443\u0440\u043d\u044b\u0435 \u043e\u0431\u0435\u0437\u0431\u043e\u043b\u0438\u0432\u0430\u044e\u0449\u0438\u0435'
          <<1056, 1072, 1089, 1089, 1084, 1086, 1090, 1088, 1080, 1090, 1077, 32, 1073, 1077,
            1079, 1088, 1077, 1094, 1077, 1087, 1090, 1091, 1088, 1085, 1099, 1077, 32, 1086,
            1073, 1077, 1079, 1073, 1086, 1083, 1080, 1074, 1072, 1102, 1097, 1080, 1077>>
        >>
    ]) @@
  (S_fever :> [
      en |-> <<
          \* 'Rest and stay hydrated'
          <<82, 101, 115, 116, 32, 97, 110, 100, 32, 115, 116, 97, 121, 32, 104, 121, 100,
            114, 97, 116, 101, 100>>,
          \* 'Monitor temperature regularly'
          <<77, 111, 110, 105, 116, 111, 114, 32, 116, 101, 109, 112, 101, 114, 97, 116, 117,
            114, 101, 32, 114, 101, 103, 117, 108, 97, 114, 108, 121>>,
          \* 'Use fever reducers if needed'
          <<85, 115, 101, 32, 102, 101, 118, 101, 114, 32, 114, 101, 100, 117, 99, 101, 114,
            115, 32, 105, 102, 32, 110, 101, 101, 100, 101, 100>>
        >>,
      ka |-> <<
          \* '\u10d3\u10d0\u10d8\u10e1\u10d5\u10d4\u10dc\u10d4\u10d7 \u10d3\u10d0 \u10d3\u10d0\u10e0\u10e9\u10d8\u10d7 \u10f0\u10d8\u10d3\u10e0\u10d0\u10e2\u10d4\u10d1\u10e3\u10da\u10d8'
          <<4307, 4304, 4312, 4321, 4309, 4308, 4316, 4308, 4311, 32, 4307, 4304, 32, 4307,
            4304, 4320, 4329, 4312, 4311, 32, 4336, 4312, 4307, 4320, 4304, 4322, 4308, 4305,
            4323, 4314, 4312>>,
          \* '\u10e0\u10d4\u10d2\u10e3\u10da\u10d0\u10e0\u10e3\u10da\u10d0\u10d3 \u10d0\u10d9\u10dd\u10dc\u10e2\u10e0\u10dd\u10da\u10d4\u10d7 \u10e2\u10d4\u10db\u10de\u10d4\u10e0\u10d0\u10e2\u10e3\u10e0\u10d0'
          <<4320, 4308, 4306, 4323, 4314, 4304, 4320, 4323, 4314, 4304, 4307, 32, 4304, 4313,
            4317, 4316, 4322, 4320, 4317, 4314, 4308, 4311, 32, 4322, 4308, 4315, 4318, 4308,
            4320, 4304, 4322, 4323, 4320, 4304>>,
          \* '\u10e1\u10d0\u10ed\u10d8\u10e0\u10dd\u10d4\u10d1\u10d8\u10e1 \u10e8\u10d4\u10db\u10d7\u10ee\u10d5\u10d4\u10d5\u10d0\u10e8\u10d8 \u10d2\u10d0\u10db\u10dd\u10d8\u10e7\u10d4\u10dc\u10d4\u10d7 \u10ea\u10ee\u10d4\u10da\u10d4\u10d1\u10d8\u10e1 \u10e8\u10d4\u10db\u10d0\u10db\u10ea\u10d8\u10e0\u10d4\u10d1\u10d4\u10da\u10d8'
          <<4321, 4304, 4333, 4312, 4320, 4317, 4308, 4305, 4312, 4321, 32, 4328, 4308, 4315,
            4311, 4334, 4309, 4308, 4309, 4304, 4328, 4312, 32, 4306, 4304, 4315, 4317, 4312,
            4327, 4308, 4316, 4308, 4311, 32, 4330, 4334, 4308, 4314, 4308, 4305, 4312, 4321,
            32, 4328, 4308, 4315, 4304, 4315, 4330, 4312, 4320, 4308, 4305, 4308, 4314, 4312>>
        >>,
      ru |-> <<
          \* '\u041e\u0442\u0434\u044b\u0445\u0430\u0439\u0442\u0435 \u0438 \u043f\u0435\u0439\u0442\u0435 \u043c\u043d\u043e\u0433\u043e \u0436\u0438\u0434\u043a\u043e\u0441\u0442\u0438'
          <<1054, 1090, 1076, 1099, 1093, 1072, 1081, 1090, 1077, 32, 1080, 32, 1087, 1077,
            1081, 1090, 1077, 32, 1084, 1085, 1086, 1075, 1086, 32, 1078, 1080, 1076, 1082,
            1086, 1089, 1090, 1080>>,
          \* '\u0420\u0435\u0433\u0443\u043b\u044f\u0440\u043d\u043e \u0438\u0437\u043c\u0435\u0440\u044f\u0439\u0442\u0435 \u0442\u0435\u043c\u043f\u0435\u0440\u0430\u0442\u0443\u0440\u0443'
          <<1056, 1077, 1075, 1091, 1083, 1103, 1088, 1085, 1086, 32, 1080, 1079, 1084, 1077,
            1088, 1103, 1081, 1090, 1077, 32, 1090, 1077, 1084, 1087, 1077, 1088, 1072, 1090,
            1091, 1088, 1091>>,
          \* '\u041f\u0440\u0438 \u043d\u0435\u043e\u0431\u0445\u043e\u0434\u0438\u043c\u043e\u0441\u0442\u0438 \u0438\u0441\u043f\u043e\u043b\u044c\u0437\u0443\u0439\u0442\u0435 \u0436\u0430\u0440\u043e\u043f\u043e\u043d\u0438\u0436\u0430\u044e\u0449\u0438\u0435'
          <<1055, 1088, 1080, 32, 1085, 1077, 1086, 1073, 1093, 1086, 1076, 1080, 1084, 1086,
            1089, 1090, 1080, 32, 1080, 1089, 1087, 1086, 1083, 1100, 1079, 1091, 1081, 1090,
            1077, 32, 1078, 1072, 1088, 1086, 1087, 1086, 1085, 1080, 1078, 1072, 1102, 1097,
            1080, 1077>>
        >>
    ]) @@
  (S_stomach_pain :> [
      en |-> <<
          \* 'Eat light foods'
          <<69, 97, 116, 32, 108, 105, 103, 104, 116, 32, 102, 111, 111, 100, 115>>,
          \* 'Stay hydrated with clear fluids'
          <<83, 116, 97, 121, 32, 104, 121, 100, 114, 97, 116, 101, 100, 32, 119, 105, 116,
            104, 32, 99, 108, 101, 97, 114, 32, 102, 108, 117, 105, 100, 115>>,
          \* 'Rest and avoid heavy meals'
          <<82, 101, 115, 116, 32, 97, 110, 100, 32, 97, 118, 111, 105, 100, 32, 104, 101, 97,
            118, 121, 32, 109, 101, 97, 108, 115>>
        >>,
      ka |-> <<
          \* '\u10db\u10d8\u10d8\u10e0\u10d7\u10d5\u10d8\u10d7 \u10db\u10e1\u10e3\u10d1\u10e3\u10e5\u10d8 \u10e1\u10d0\u10d9\u10d5\u10d4\u10d1\u10d8'
          <<4315, 4312, 4312, 4320, 4311, 4309, 4312, 4311, 32, 4315, 4321, 4323, 4305, 4323,
            4325, 4312, 32, 4321, 4304, 4313, 4309, 4308, 4305, 4312>>,
          \* '\u10d3\u10d0\u10e0\u10e9\u10d8\u10d7 \u10f0\u10d8\u10d3\u10e0\u10d0\u10e2\u10d4\u10d1\u10e3\u10da\u10d8 \u10d2\u10d0\u10db\u10ed\u10d5\u10d8\u10e0\u10d5\u10d0\u10da\u10d4 \u10e1\u10d8\u10d7\u10ee\u10d4\u10d4\u10d1\u10d8\u10d7'
          <<4307, 4304, 4320, 4329, 4312, 4311, 32, 4336, 4312, 4307, 4320, 4304, 4322, 4308,
            4305, 4323, 4314, 4312, 32, 4306, 4304, 4315, 4333, 4309, 4312, 4320, 4309, 4304,
            4314, 4308, 32, 4321, 4312, 4311, 4334, 4308, 4308, 4305, 4312, 4311>>,
          \* '\u10d3\u10d0\u10d8\u10e1\u10d5\u10d4\u10dc\u10d4\u10d7 \u10d3\u10d0 \u10d0\u10d5\u10d0\u10e0\u10d8\u10d3\u10d4\u10d7 \u10db\u10eb\u10d8\u10db\u10d4 \u10e1\u10d0\u10d9\u10d5\u10d4\u10d1\u10d8'
          <<4307, 4304, 4312, 4321, 4309, 4308, 4316, 4308, 4311, 32, 4307, 4304, 32, 4304,
            4309, 4304, 4320, 4312, 4307, 4308, 4311, 32, 4315, 4331, 4312, 4315, 4308, 32,
            4321, 4304, 4313, 4309, 4308, 4305, 4312>>
        >>,
      ru |-> <<
          \* '\u0415\u0448\u044c\u0442\u0435 \u043b\u0435\u0433\u043a\u0443\u044e \u043f\u0438\u0449\u0443'
          <<1045, 1096, 1100, 1090, 1077, 32, 1083, 1077, 1075, 1082, 1091, 1102, 32, 1087,
            1080, 1097, 1091>>,
          \* '\u041f\u0435\u0439\u0442\u0435 \u043f\u0440\u043e\u0437\u0440\u0430\u0447\u043d\u044b\u0435 \u0436\u0438\u0434\u043a\u043e\u0441\u0442\u0438'
          <<1055, 1077, 1081, 1090, 1077, 32, 1087, 1088, 1086, 1079, 1088, 1072, 1095, 1085,
            1099, 1077, 32, 1078, 1080, 1076, 1082, 1086, 1089, 1090, 1080>>,
          \* '\u041e\u0442\u0434\u044b\u0445\u0430\u0439\u0442\u0435 \u0438 \u0438\u0437\u0431\u0435\u0433\u0430\u0439\u0442\u0435 \u0442\u044f\u0436\u0435\u043b\u043e\u0439 \u043f\u0438\u0449\u0438'
          <<1054, 1090, 1076, 1099, 1093, 1072, 1081, 1090, 1077, 32, 1080, 32, 1080, 1079,
            1073, 1077, 1075, 1072, 1081, 1090, 1077, 32, 1090, 1103, 1078, 1077, 1083, 1086,
            1081, 32, 1087, 1080, 1097, 1080>>
        >>
    ])

default_actions == [
  en |-> <<
      \* 'Monitor symptoms'
      <<77, 111, 110, 105, 116, 111, 114, 32, 115, 121, 109, 112, 116, 111, 109, 115>>,
      \* 'Rest and stay hydrated'
      <<82, 101, 115, 116, 32, 97, 110, 100, 32, 115, 116, 97, 121, 32, 104, 121, 100, 114,
        97, 116, 101, 100>>,
      \* 'Seek medical care if worsening'
      <<83, 101, 101, 107, 32, 109, 101, 100, 105, 99, 97, 108, 32, 99, 97, 114, 101, 32, 105,
        102, 32, 119, 111, 114, 115, 101, 110, 105, 110, 103>>
    >>,
  ka |-> <<
      \* '\u10d3\u10d0\u10d0\u10d9\u10d5\u10d8\u10e0\u10d3\u10d8\u10d7 \u10e1\u10d8\u10db\u10de\u10e2\u10dd\u10db\u10d4\u10d1\u10e1'
      <<4307, 4304, 4304, 4313, 4309, 4312, 4320, 4307, 4312, 4311, 32, 4321, 4312, 4315,
        4318, 4322, 4317, 4315, 4308, 4305, 4321>>,
      \* '\u10d3\u10d0\u10d8\u10e1\u10d5\u10d4\u10dc\u10d4\u10d7 \u10d3\u10d0 \u10d3\u10d0\u10e0\u10e9\u10d8\u10d7 \u10f0\u10d8\u10d3\u10e0\u10d0\u10e2\u10d4\u10d1\u10e3\u10da\u10d8'
      <<4307, 4304, 4312, 4321, 4309, 4308, 4316, 4308, 4311, 32, 4307, 4304, 32, 4307, 4304,
        4320, 4329, 4312, 4311, 32, 4336, 4312, 4307, 4320, 4304, 4322, 4308, 4305, 4323, 4314,
        4312>>,
      \* '\u10db\u10d8\u10db\u10d0\u10e0\u10d7\u10d4\u10d7 \u10d4\u10e5\u10d8\u10db\u10e1 \u10d7\u10e3 \u10e3\u10d0\u10e0\u10d4\u10e1\u10d3\u10d4\u10d1\u10d0'
      <<4315, 4312, 4315, 4304, 4320, 4311, 4308, 4311, 32, 4308, 4325, 4312, 4315, 4321, 32,
        4311, 4323, 32, 4323, 4304, 4320, 4308, 4321, 4307, 4308, 4305, 4304>>
    >>,
  ru |-> <<
      \* '\u0421\u043b\u0435\u0434\u0438\u0442\u0435 \u0437\u0430 \u0441\u0438\u043c\u043f\u0442\u043e\u043c\u0430\u043c\u0438'
      <<1057, 1083, 1077, 1076, 1080, 1090, 1077, 32, 1079, 1072, 32, 1089, 1080, 1084, 1087,
        1090, 1086, 1084, 1072, 1084, 1080>>,
      \* '\u041e\u0442\u0434\u044b\u0445\u0430\u0439\u0442\u0435 \u0438 \u043f\u0435\u0439\u0442\u0435 \u0436\u0438\u0434\u043a\u043e\u0441\u0442\u044c'
      <<1054, 1090, 1076, 1099, 1093, 1072, 1081, 1090, 1077, 32, 1080, 32, 1087, 1077, 1081,
        1090, 1077, 32, 1078, 1080, 1076, 1082, 1086, 1089, 1090, 1100>>,
      \* '\u041e\u0431\u0440\u0430\u0442\u0438\u0442\u0435\u0441\u044c \u043a \u0432\u0440\u0430\u0447\u0443 \u043f\u0440\u0438 \u0443\u0445\u0443\u0434\u0448\u0435\u043d\u0438\u0438'
      <<1054, 1073, 1088, 1072, 1090, 1080, 1090, 1077, 1089, 1100, 32, 1082, 32, 1074, 1088,
        1072, 1095, 1091, 32, 1087, 1088, 1080, 32, 1091, 1093, 1091, 1076, 1096, 1077, 1085,
        1080, 1080>>
    >>
]

fallback_responses == [
  ka |->
    \* '\u10d5\u10ec\u10e3\u10ee\u10d5\u10d0\u10e0, \u10de\u10d0\u10e1\u10e3\u10ee\u10d8\u10e1 \u10d2\u10d4\u10dc\u10d4\u10e0\u10d0\u10ea\u10d8\u10d0 \u10d5\u10d4\u10e0 \u10d2\u10d0\u10db\u10dd\u10d5\u10d8\u10d3\u10d0. \u10e1\u10ea\u10d0\u10d3\u10d4\u10d7 \u10db\u10dd\u10d2\u10d5\u10d8\u10d0\u10dc\u10d4\u10d1\u10d8\u10d7.\n\u10d0\u10db\u10d0\u10e1\u10dd\u10d1\u10d0\u10e8\u10d8, \u10d7\u10e3 \u10e1\u10d8\u10db\u10de\u10e2\u10dd\u10db\u10d4\u10d1\u10d8 \u10db\u10eb\u10d8\u10db\u10d3\u10d4\u10d1\u10d0, \u10d3\u10d0\u10d4\u10d9\u10dd\u10dc\u10e2\u10d0\u10e5\u10e2\u10d4\u10d7 112\u2011\u10e1.'
    <<4309, 4332, 4323, 4334, 4309, 4304, 4320, 44, 32, 4318, 4304, 4321, 4323, 4334, 4312,
      4321, 32, 4306, 4308, 4316, 4308, 4320, 4304, 4330, 4312, 4304, 32, 4309, 4308, 4320, 32,
      4306, 4304, 4315, 4317, 4309, 4312, 4307, 4304, 46, 32, 4321, 4330, 4304, 4307, 4308,
      4311, 32, 4315, 4317, 4306, 4309, 4312, 4304, 4316, 4308, 4305, 4312, 4311, 46, 10, 4304,
      4315, 4304, 4321, 4317, 4305, 4304, 4328, 4312, 44, 32, 4311, 4323, 32, 4321, 4312, 4315,
      4318, 4322, 4317, 4315, 4308, 4305, 4312, 32, 4315, 4331, 4312, 4315, 4307, 4308, 4305,
      4304, 44, 32, 4307, 4304, 4308, 4313, 4317, 4316, 4322, 4304, 4325, 4322, 4308, 4311, 32,
      49, 49, 50, 8209, 4321, 46>>,
  ru |->
    \* '\u0418\u0437\u0432\u0438\u043d\u0438\u0442\u0435, \u043d\u0435 \u0443\u0434\u0430\u043b\u043e\u0441\u044c \u043f\u043e\u043b\u0443\u0447\u0438\u0442\u044c \u043e\u0442\u0432\u0435\u0442. \u041f\u043e\u043f\u0440\u043e\u0431\u0443\u0439\u0442\u0435 \u043f\u043e\u0437\u0436\u0435.\n\u0415\u0441\u043b\u0438 \u0441\u043e\u0441\u0442\u043e\u044f\u043d\u0438\u0435 \u0443\u0445\u0443\u0434\u0448\u0430\u0435\u0442\u0441\u044f \u2014 \u0437\u0432\u043e\u043d\u0438\u0442\u0435 112.'
    <<1048, 1079, 1074, 1080, 1085, 1080, 1090, 1077, 44, 32, 1085, 1077, 32, 1091, 1076,
      1072, 1083, 1086, 1089, 1100, 32, 1087, 1086, 1083, 1091, 1095, 1080, 1090, 1100, 32,
      1086, 1090, 1074, 1077, 1090, 46, 32, 1055, 1086, 1087, 1088, 1086, 1073, 1091, 1081,
      1090, 1077, 32, 1087, 1086, 1079, 1078, 1077, 46, 10, 1045, 1089, 1083, 1080, 32, 1089,
      1086, 1089, 1090, 1086, 1103, 1085, 1080, 1077, 32, 1091, 1093, 1091, 1076, 1096, 1072,
      1077, 1090, 1089, 1103, 32, 8212, 32, 1079, 1074, 1086, 1085, 1080, 1090, 1077, 32, 49,
      49, 50, 46>>,
  en |->
    \* "Sorry, I couldn't generate a response right now. Please try again later.\nIf symptoms worsen, call emergency services."
    <<83, 111, 114, 114, 121, 44, 32, 73, 32, 99, 111, 117, 108, 100, 110, 39, 116, 32, 103,
      101, 110, 101, 114, 97, 116, 101, 32, 97, 32, 114, 101, 115, 112, 111, 110, 115, 101, 32,
      114, 105, 103, 104, 116, 32, 110, 111, 119, 46, 32, 80, 108, 101, 97, 115, 101, 32, 116,
      114, 121, 32, 97, 103, 97, 105, 110, 32, 108, 97, 116, 101, 114, 46, 10, 73, 102, 32, 115,
      121, 109, 112, 116, 111, 109, 115, 32, 119, 111, 114, 115, 101, 110, 44, 32, 99, 97, 108,
      108, 32, 101, 109, 101, 114, 103, 101, 110, 99, 121, 32, 115, 101, 114, 118, 105, 99, 101,
      115, 46>>
]

\* the emergency message templates, split at the '{}' placeholder
emergency_templates == [
  ka |-> [
    pre |->
      \* "\u10d7\u10e5\u10d5\u10d4\u10dc\u10d8 \u10d0\u10e6\u10ec\u10d4\u10e0\u10d8\u10d3\u10d0\u10dc \u10d0\u10e0\u10e1\u10d4\u10d1\u10dd\u10d1\u10e1 \u10d2\u10d0\u10d3\u10d0\u10e3\u10d3\u10d4\u10d1\u10d4\u10da\u10d8 \u10e1\u10d8\u10db\u10de\u10e2\u10dd\u10db\u10d8\u10e1 \u10e0\u10d8\u10e1\u10d9\u10d8 ( \u10db\u10d0\u10d2., '"
      <<4311, 4325, 4309, 4308, 4316, 4312, 32, 4304, 4326, 4332, 4308, 4320, 4312, 4307,
        4304, 4316, 32, 4304, 4320, 4321, 4308, 4305, 4317, 4305, 4321, 32, 4306, 4304, 4307,
        4304, 4323, 4307, 4308, 4305, 4308, 4314, 4312, 32, 4321, 4312, 4315, 4318, 4322, 4317,
        4315, 4312, 4321, 32, 4320, 4312, 4321, 4313, 4312, 32, 40, 32, 4315, 4304, 4306, 46,
        44, 32, 39>>,
    post |->
      \* "').\n\u10d2\u10d7\u10ee\u10dd\u10d5\u10d7, \u10d3\u10d0\u10e3\u10e7\u10dd\u10d5\u10dc\u10d4\u10d1\u10da\u10d8\u10d5 \u10d3\u10d0\u10e0\u10d4\u10d9\u10dd\u10d7 112\u2011\u10d6\u10d4 \u10d0\u10dc \u10db\u10d8\u10db\u10d0\u10e0\u10d7\u10dd\u10d7 \u10e3\u10d0\u10ee\u10da\u10dd\u10d4\u10e1 \u10d2\u10d0\u10d3\u10d0\u10e3\u10d3\u10d4\u10d1\u10d4\u10da \u10d2\u10d0\u10dc\u10e7\u10dd\u10e4\u10d8\u10da\u10d4\u10d1\u10d0\u10e1.\n\u10d7\u10e3 \u10e8\u10d4\u10d2\u10d8\u10eb\u10da\u10d8\u10d0\u10d7, \u10d7\u10d0\u10dc \u10ec\u10d0\u10d8\u10e6\u10d4\u10d7 \u10db\u10d8\u10db\u10d3\u10d8\u10dc\u10d0\u10e0\u10d4 \u10db\u10d4\u10d3\u10d8\u10d9\u10d0\u10db\u10d4\u10dc\u10e2\u10d4\u10d1\u10d8\u10e1 \u10e1\u10d8\u10d0 \u10d3\u10d0 \u10d0\u10da\u10d4\u10e0\u10d2\u10d8\u10d4\u10d1\u10d8\u10e1 \u10d8\u10dc\u10e4\u10dd\u10e0\u10db\u10d0\u10ea\u10d8\u10d0."
      <<39, 41, 46, 10, 4306, 4311, 4334, 4317, 4309, 4311, 44, 32, 4307, 4304, 4323, 4327,
        4317, 4309, 4316, 4308, 4305, 4314, 4312, 4309, 32, 4307, 4304, 4320, 4308, 4313, 4317,
        4311, 32, 49, 49, 50, 8209, 4310, 4308, 32, 4304, 4316, 32, 4315, 4312, 4315, 4304,
        4320, 4311, 4317, 4311, 32, 4323, 4304, 4334, 4314, 4317, 4308, 4321, 32, 4306, 4304,
        4307, 4304, 4323, 4307, 4308, 4305, 4308, 4314, 32, 4306, 4304, 4316, 4327, 4317, 4324,
        4312, 4314, 4308, 4305, 4304, 4321, 46, 10, 4311, 4323, 32, 4328, 4308, 4306, 4312,
        4331, 4314, 4312, 4304, 4311, 44, 32, 4311, 4304, 4316, 32, 4332, 4304, 4312, 4326,
        4308, 4311, 32, 4315, 4312, 4315, 4307, 4312, 4316, 4304, 4320, 4308, 32, 4315, 4308,
        4307, 4312, 4313, 4304, 4315, 4308, 4316, 4322, 4308, 4305, 4312, 4321, 32, 4321, 4312,
        4304, 32, 4307, 4304, 32, 4304, 4314, 4308, 4320, 4306, 4312, 4308, 4305, 4312, 4321,
        32, 4312, 4316, 4324, 4317, 4320, 4315, 4304, 4330, 4312, 4304, 46>>
  ],
  ru |-> [
    pre |->
      \* "\u041f\u043e \u043e\u043f\u0438\u0441\u0430\u043d\u0438\u044e \u0432\u043e\u0437\u043c\u043e\u0436\u0435\u043d \u043f\u0440\u0438\u0437\u043d\u0430\u043a \u043d\u0435\u043e\u0442\u043b\u043e\u0436\u043d\u043e\u0433\u043e \u0441\u043e\u0441\u0442\u043e\u044f\u043d\u0438\u044f (\u043d\u0430\u043f\u0440., '"
      <<1055, 1086, 32, 1086, 1087, 1080, 1089, 1072, 1085, 1080, 1102, 32, 1074, 1086, 1079,
        1084, 1086, 1078, 1077, 1085, 32, 1087, 1088, 1080, 1079, 1085, 1072, 1082, 32, 1085,
        1077, 1086, 1090, 1083, 1086, 1078, 1085, 1086, 1075, 1086, 32, 1089, 1086, 1089, 1090,
        1086, 1103, 1085, 1080, 1103, 32, 40, 1085, 1072, 1087, 1088, 46, 44, 32, 39>>,
    post |->
      \* "').\n\u041d\u0435\u043c\u0435\u0434\u043b\u0435\u043d\u043d\u043e \u0437\u0432\u043e\u043d\u0438\u0442\u0435 112 \u0438\u043b\u0438 \u043e\u0431\u0440\u0430\u0442\u0438\u0442\u0435\u0441\u044c \u0432 \u0431\u043b\u0438\u0436\u0430\u0439\u0448\u0435\u0435 \u043e\u0442\u0434\u0435\u043b\u0435\u043d\u0438\u0435 \u043d\u0435\u043e\u0442\u043b\u043e\u0436\u043d\u043e\u0439 \u043f\u043e\u043c\u043e\u0449\u0438.\n\u0415\u0441\u043b\u0438 \u0432\u043e\u0437\u043c\u043e\u0436\u043d\u043e, \u0432\u043e\u0437\u044c\u043c\u0438\u0442\u0435 \u0441 \u0441\u043e\u0431\u043e\u0439 \u0441\u043f\u0438\u0441\u043e\u043a \u043f\u0440\u0438\u043d\u0438\u043c\u0430\u0435\u043c\u044b\u0445 \u043f\u0440\u0435\u043f\u0430\u0440\u0430\u0442\u043e\u0432 \u0438 \u0430\u043b\u043b\u0435\u0440\u0433\u0438\u0439."
      <<39, 41, 46, 10, 1053, 1077, 1084, 1077, 1076, 1083, 1077, 1085, 1085, 1086, 32, 1079,
        1074, 1086, 1085, 1080, 1090, 1077, 32, 49, 49, 50, 32, 1080, 1083, 1080, 32, 1086,
        1073, 1088, 1072, 1090, 1080, 1090, 1077, 1089, 1100, 32, 1074, 32, 1073, 1083, 1080,
        1078, 1072, 1081, 1096, 1077, 1077, 32, 1086, 1090, 1076, 1077, 1083, 1077, 1085, 1080,
        1077, 32, 1085, 1077, 1086, 1090, 1083, 1086, 1078, 1085, 1086, 1081, 32, 1087, 1086,
        1084, 1086, 1097, 1080, 46, 10, 1045, 1089, 1083, 1080, 32, 1074, 1086, 1079, 1084,
        1086, 1078, 1085, 1086, 44, 32, 1074, 1086, 1079, 1100, 1084, 1080, 1090, 1077, 32,
        1089, 32, 1089, 1086, 1073, 1086, 1081, 32, 1089, 1087, 1080, 1089, 1086, 1082, 32,
        1087, 1088, 1080, 1085, 1080, 1084, 1072, 1077, 1084, 1099, 1093, 32, 1087, 1088, 1077,
        1087, 1072, 1088, 1072, 1090, 1086, 1074, 32, 1080, 32, 1072, 1083, 1083, 1077, 1088,
        1075, 1080, 1081, 46>>
  ],
  en |-> [
    pre |->
      \* "Your description suggests a possible urgent symptom (e.g., '"
      <<89, 111, 117, 114, 32, 100, 101, 115, 99, 114, 105, 112, 116, 105, 111, 110, 32, 115,
        117, 103, 103, 101, 115, 116, 115, 32, 97, 32, 112, 111, 115, 115, 105, 98, 108, 101,
        32, 117, 114, 103, 101, 110, 116, 32, 115, 121, 109, 112, 116, 111, 109, 32, 40, 101,
        46, 103, 46, 44, 32, 39>>,
    post |->
      \* "').\nPlease call **112** or go to the nearest emergency department **now**.\nIf you can, bring a list of your medications and allergies."
      <<39, 41, 46, 10, 80, 108, 101, 97, 115, 101, 32, 99, 97, 108, 108, 32, 42, 42, 49, 49,
        50, 42, 42, 32, 111, 114, 32, 103, 111, 32, 116, 111, 32, 116, 104, 101, 32, 110, 101,
        97, 114, 101, 115, 116, 32, 101, 109, 101, 114, 103, 101, 110, 99, 121, 32, 100, 101,
        112, 97, 114, 116, 109, 101, 110, 116, 32, 42, 42, 110, 111, 119, 42, 42, 46, 10, 73,
        102, 32, 121, 111, 117, 32, 99, 97, 110, 44, 32, 98, 114, 105, 110, 103, 32, 97, 32,
        108, 105, 115, 116, 32, 111, 102, 32, 121, 111, 117, 114, 32, 109, 101, 100, 105, 99,
        97, 116, 105, 111, 110, 115, 32, 97, 110, 100, 32, 97, 108, 108, 101, 114, 103, 105,
        101, 115, 46>>
  ]
]

emergency_actions == <<
  \* 'Call 112'
  <<67, 97, 108, 108, 32, 49, 49, 50>>,
  \* 'Go to emergency department'
  <<71, 111, 32, 116, 111, 32, 101, 109, 101, 114, 103, 101, 110, 99, 121, 32, 100, 101, 112,
    97, 114, 116, 109, 101, 110, 116>>,
  \* 'Bring medication list'
  <<66, 114, 105, 110, 103, 32, 109, 101, 100, 105, 99, 97, 116, 105, 111, 110, 32, 108, 105,
    115, 116>>
>>

Fragments == {
  \* 'chest pain': red flag 1 (en)
  <<99, 104, 101, 115, 116, 32, 112, 97, 105, 110>>,
  \* 'Severe ': high-urgency keyword once lowercased; with 'headache' after it, red flag 3
  <<83, 101, 118, 101, 114, 101, 32>>,
  \* 'headache': keyword of headache
  <<104, 101, 97, 100, 97, 99, 104, 101>>,
  \* 'fever': keyword of fever, and a symptom of the guideline entry flu
  <<102, 101, 118, 101, 114>>,
  \* 'cough': keyword of cough: it has questions but no actions and no guideline
  <<99, 111, 117, 103, 104>>,
  \* 'cold': keyword of cold: it has no questions, no actions and no guideline
  <<99, 111, 108, 100>>,
  \* 'STROKE': red flag 5 once lowercased
  <<83, 84, 82, 79, 75, 69>>,
  \* ' ': whitespace
  <<32>>,
  \* '\xa0': whitespace (NO-BREAK SPACE)
  <<160>>,
  \* '\u10d7\u10d0\u10d5\u10d8\u10e1 \u10e2\u10d9\u10d8\u10d5\u10d8\u10da\u10d8': Georgian keyword of headache
  <<4311, 4304, 4309, 4312, 4321, 32, 4322, 4313, 4312, 4309, 4312, 4314, 4312>>,
  \* '\u10eb\u10da\u10d8\u10d4\u10e0\u10d8 ': Georgian high-urgency keyword; with the Georgian headache keyword after it, red flag 12
  <<4331, 4314, 4312, 4308, 4320, 4312, 32>>,
  \* ' \u10db\u10d0\u10e5\u10d5\u10e1': Georgian text with no keyword (5 Georgian letters)
  <<32, 4315, 4304, 4325, 4309, 4321>>,
  \* '\u0438\u043d\u0441\u0443\u043b\u044c\u0442': red flag 20 (ru), 7 Cyrillic letters
  <<1080, 1085, 1089, 1091, 1083, 1100, 1090>>,
  \* '\u10a0\u10ff': the first and last code points of the Georgian block
  <<4256, 4351>>,
  \* '\u0400\u04ff': the first and last code points of the Cyrillic block
  <<1024, 1279>>,
  \* '\u03ff\u0500\u109f\u1100\u1c90': code points next to the two blocks, and a Georgian Extended capital
  <<1023, 1280, 4255, 4352, 7312>>
}

\* ---- Optional[T] ----
None == <<>>

Some(x) == <<x>>

\* ---- the inputs of the model ----

\* every text made of at most n fragments
RECURSIVE Texts(_)
Texts(n) ==
  IF n = 0 THEN {<<>>}
  ELSE LET shorter == Texts(n - 1)
       IN  shorter \cup {s \o f : s \in shorter, f \in Fragments}

Messages == Texts(MaxFrags)

\* ChatRequest.user_context: absent, or a non-empty mapping
UserContexts == {None, Some("user_context")}

ChatRequest == [message : Messages, user_context : UserContexts]

\* SymptomAssessment.severity: values on both sides of the thresholds 5 and 8
Severities == {4, 5, 7, 8}

SymptomAssessment == [symptom : Messages, severity : Severities]

\* 'Flu'
S_Flu == <<70, 108, 117>>

\* the {condition} of GET /api/disease-guidelines/{condition}: the texts, and a key of
\* the guideline table written with a capital
Conditions == Messages \cup {S_Flu}

\* the lang query parameter: the three languages, and one the table has no guidance in
QueryLangs == {"en", "ka", "ru", "de"}

GuidelinesRequest == [condition : Conditions, lang : QueryLangs]

\* what the external model's completion can hold as message.content:
\* ' Rest and drink water.\n' and ''
Completions == {
  <<32, 82, 101, 115, 116, 32, 97, 110, 100, 32, 100, 114, 105, 110, 107, 32, 119, 97, 116,
    101, 114, 46, 10>>,
  <<>>
}

\* ---- str methods ----

\* isspace as it would be if only the ASCII whitespace were known
isspace_ascii(c) == c \in 9..13 \/ c = 32

\* str.isspace of one character
isspace(c) ==
  \/ c \in 9..13
  \/ c \in 28..32
  \/ c \in {133, 160, 5760}
  \/ c \in 8192..8202
  \/ c \in {8232, 8233, 8239, 8287, 12288}

RECURSIVE lstrip(_)
lstrip(s) == IF Len(s) > 0 /\ isspace(Head(s)) THEN lstrip(Tail(s)) ELSE s

RECURSIVE rstrip(_)
rstrip(s) ==
  IF Len(s) > 0 /\ isspace(s[Len(s)]) THEN rstrip(SubSeq(s, 1, Len(s) - 1)) ELSE s

\* str.strip()
strip(s) == rstrip(lstrip(s))

\* str.lower of one character, for the scripts the request texts are written in:
\* Basic Latin, Greek (U+03FD..U+03FF), Cyrillic (U+0400..U+042F), Cyrillic
\* Supplement, Georgian Asomtavruli (U+10A0..U+10C5), Georgian Mtavruli (U+1C90..U+1CBA)
lower_char(c) ==
  IF c \in 65..90 THEN c + 32
  ELSE IF c \in 1021..1023 THEN c - 130
  ELSE IF c \in 1024..1039 THEN c + 80
  ELSE IF c \in 1040..1071 THEN c + 32
  ELSE IF c \in 1280..1327 /\ c % 2 = 0 THEN c + 1
  ELSE IF c \in 4256..4293 THEN c + 7264
  ELSE IF c \in 7312..7354 THEN c - 3008
  ELSE c

\* str.lower()
lower(s) == [i \in 1..Len(s) |-> lower_char(s[i])]

\* kw in text
In(kw, text) ==
  \E i \in 0..(Len(text) - Len(kw)) : \A j \in 1..Len(kw) : text[i + j] = kw[j]

\* template.format(arg), the template having one '{}'
format(template, arg) == template.pre \o arg \o template.post

\* d.get(k, default)
get(d, k, default) == IF k \in DOMAIN d THEN d[k] ELSE default

\* x in a list
InList(x, list) == \E i \in DOMAIN list : list[i] = x

\* ---- src/app/agent.py ----

\* detect_lang as it would be with >= for >: a tie goes to "ka"
detect_lang_tie(text) ==
  LET ka_chars == Cardinality({i \in DOMAIN text : text[i] >= 4256 /\ text[i] <= 4351})
      ru_chars == Cardinality({i \in DOMAIN text : 1024 <= text[i] /\ text[i] <= 1279})
  IN  IF ka_chars >= ru_chars /\ ka_chars > 0 THEN "ka"
      ELSE IF ru_chars > 0 THEN "ru"
      ELSE "en"

detect_lang(text) ==
  LET ka_chars == Cardinality({i \in DOMAIN text : text[i] >= 4256 /\ text[i] <= 4351})
      ru_chars == Cardinality({i \in DOMAIN text : 1024 <= text[i] /\ text[i] <= 1279})
  IN  IF ka_chars > ru_chars /\ ka_chars > 0 THEN "ka"
      ELSE IF ru_chars > 0 THEN "ru"
      ELSE "en"

\* the loop as it would be if a later match replaced an earlier one
RECURSIVE scan_flags_last(_, _)
scan_flags_last(lower_text, i) ==
  IF i > Len(flags) THEN None
  ELSE LET later == scan_flags_last(lower_text, i + 1)
       IN  IF later # None THEN later
           ELSE IF In(flags[i].kw, lower_text) THEN Some(flags[i].kw)
           ELSE None

\* the loop of emergency_red_flags from catalog index i on
RECURSIVE scan_flags(_, _)
scan_flags(lower_text, i) ==
  IF i > Len(flags) THEN None
  ELSE IF In(flags[i].kw, lower_text) THEN Some(flags[i].kw)
  ELSE scan_flags(lower_text, i + 1)

\* emergency_red_flags as it would be without text.lower()
emergency_red_flags_cased(text) == scan_flags(text, 1)

emergency_red_flags(text) == scan_flags(lower(text), 1)

\* any(kw in text_lower for kw in keywords)
any_in(keywords, text_lower) == \E i \in DOMAIN keywords : In(keywords[i], text_lower)

\* analyze_symptoms as it would be if the last match were the primary symptom
analyze_symptoms_last(text, lang) ==
  LET text_lower == lower(text)
      matching == SelectSeq(symptom_keywords, LAMBDA e : any_in(e.keywords, text_lower))
      found_symptoms == [i \in 1..Len(matching) |-> matching[i].condition]
  IN  [ primary_symptom |-> IF Len(found_symptoms) > 0 THEN found_symptoms[Len(found_symptoms)]
                            ELSE S_general,
        found_symptoms |-> found_symptoms,
        urgency_level |-> IF any_in(high_urgency_keywords, text_lower)
                          THEN "moderate" ELSE "low" ]

analyze_symptoms(text, lang) ==
  LET text_lower == lower(text)
      matching == SelectSeq(symptom_keywords, LAMBDA e : any_in(e.keywords, text_lower))
      found_symptoms == [i \in 1..Len(matching) |-> matching[i].condition]
  IN  [ primary_symptom |-> IF Len(found_symptoms) > 0 THEN found_symptoms[1] ELSE S_general,
        found_symptoms |-> found_symptoms,
        urgency_level |-> IF any_in(high_urgency_keywords, text_lower)
                          THEN "moderate" ELSE "low" ]

\* the loop of get_disease_guidance from table index i on
RECURSIVE scan_guidelines(_, _, _)
scan_guidelines(symptom, lang, i) ==
  IF i > Len(DISEASE_GUIDELINES) THEN None
  ELSE LET info == DISEASE_GUIDELINES[i]
       IN  IF InList(symptom, info.symptoms) \/ symptom = info.condition
           THEN Some([ condition |-> info.condition,
                       guidance |-> get(info.guidance, lang, info.guidance["en"]),
                       red_flags |-> info.red_flags ])
           ELSE scan_guidelines(symptom, lang, i + 1)

get_disease_guidance(symptom, lang) == scan_guidelines(symptom, lang, 1)

generate_follow_up_questions(symptom, lang) ==
  get(get(questions, symptom, <<>>), lang, get(get(questions, symptom, <<>>), "en", <<>>))

\* generate_suggested_actions as it would be with [] for the default, as the questions have
generate_suggested_actions_nodefault(symptom, urgency_level, lang) ==
  get(get(actions, symptom, <<>>), lang, <<>>)

generate_suggested_actions(symptom, urgency_level, lang) ==
  get(get(actions, symptom, <<>>), lang, get(default_actions, lang, default_actions["en"]))

\* the messages call_llm sends: the system prompt, the language instruction, the
\* conversation context if there is one, the guidance if one was found, the user's text
build_messages(conversation_context, disease_info) ==
  <<"system: IMPROVED_SYSTEM_PROMPT", "system: lang_instructions">>
  \o (IF conversation_context # None THEN <<"system: context_msg">> ELSE <<>>)
  \o (IF disease_info # None THEN <<"system: guidance_msg">> ELSE <<>>)
  \o <<"user: prompt_user">>

\* follow_up_questions[:1]
first_one(list) == SubSeq(list, 1, IF Len(list) < 1 THEN Len(list) ELSE 1)

\* call_llm's result as it would be if the hint of the high-urgency keywords were "high"
llm_result_high(response_text, a, disease_info, lang) ==
  [ reply |-> response_text,
    follow_up_questions |-> first_one(generate_follow_up_questions(a.primary_symptom, lang)),
    suggested_actions |-> generate_suggested_actions(a.primary_symptom, a.urgency_level, lang),
    urgency_level |-> IF a.urgency_level = "moderate" THEN "high" ELSE a.urgency_level,
    disease_info |-> disease_info ]

\* what call_llm returns after the completion arrived
llm_result(response_text, a, disease_info, lang) ==
  [ reply |-> response_text,
    follow_up_questions |-> first_one(generate_follow_up_questions(a.primary_symptom, lang)),
    suggested_actions |-> generate_suggested_actions(a.primary_symptom, a.urgency_level, lang),
    urgency_level |-> a.urgency_level,
    disease_info |-> disease_info ]

\* the except branch as it would be if it ignored the language
llm_fallback_english(lang) ==
  [ reply |-> fallback_responses["en"],
    follow_up_questions |-> <<>>,
    suggested_actions |-> <<>>,
    urgency_level |-> "low",
    disease_info |-> None ]

\* what call_llm returns from its except branch
llm_fallback(lang) ==
  [ reply |-> get(fallback_responses, lang, fallback_responses["en"]),
    follow_up_questions |-> <<>>,
    suggested_actions |-> <<>>,
    urgency_level |-> "low",
    disease_info |-> None ]

\* ---- src/main.py ----

\* the red-flag branch as it would be if the template went by the matched phrase's tag
emergency_response_by_tag(lang, flag) ==
  LET tag == flags[CHOOSE i \in DOMAIN flags : flags[i].kw = flag].lang
  IN  [ reply |-> format(IF tag = "ka" THEN emergency_templates.ka
                         ELSE IF tag = "ru" THEN emergency_templates.ru
                         ELSE emergency_templates.en, flag),
        follow_up_questions |-> None,
        suggested_actions |-> Some(emergency_actions),
        urgency_level |-> Some("emergency"),
        disease_info |-> None ]

\* the ChatResponse of the red-flag branch: the fields not given keep their default None
emergency_response(lang, flag) ==
  [ reply |-> format(IF lang = "ka" THEN emergency_templates.ka
                     ELSE IF lang = "ru" THEN emergency_templates.ru
                     ELSE emergency_templates.en, flag),
    follow_up_questions |-> None,
    suggested_actions |-> Some(emergency_actions),
    urgency_level |-> Some("emergency"),
    disease_info |-> None ]

\* the ChatResponse as it would be with the actions passed for the questions
chat_response_swapped(response_data) ==
  [ reply |-> response_data.reply,
    follow_up_questions |-> Some(response_data.suggested_actions),
    suggested_actions |-> Some(response_data.suggested_actions),
    urgency_level |-> Some(response_data.urgency_level),
    disease_info |-> response_data.disease_info ]

\* the ChatResponse built from call_llm's dict
chat_response(response_data) ==
  [ reply |-> response_data.reply,
    follow_up_questions |-> Some(response_data.follow_up_questions),
    suggested_actions |-> Some(response_data.suggested_actions),
    urgency_level |-> Some(response_data.urgency_level),
    disease_info |-> response_data.disease_info ]

\* the dict assess_symptom returns
assessment_response(assessment) ==
  LET lang == detect_lang(assessment.symptom)
  IN  [ symptom |-> assessment.symptom,
        severity_level |-> IF assessment.severity >= 8 THEN "high"
                           ELSE IF assessment.severity >= 5 THEN "moderate"
                           ELSE "low",
        disease_info |-> get_disease_guidance(lower(assessment.symptom), lang),
        suggested_actions |-> generate_suggested_actions(lower(assessment.symptom), "low", lang),
        seek_immediate_care |-> assessment.severity >= 8,
        follow_up_days |-> IF assessment.severity < 5 THEN 3 ELSE 1 ]

\* key in DISEASE_GUIDELINES
is_guideline_key(key) == \E i \in DOMAIN DISEASE_GUIDELINES : DISEASE_GUIDELINES[i].condition = key

\* the try block of get_disease_guidelines: the dict it returns, or the HTTPException
\* its else branch raises
guidelines_try(condition, lang) ==
  IF is_guideline_key(lower(condition))
  THEN LET guidelines == DISEASE_GUIDELINES[CHOOSE i \in DOMAIN DISEASE_GUIDELINES :
                                              DISEASE_GUIDELINES[i].condition = lower(condition)]
       IN  [ raised |-> FALSE,
             value |-> [ condition |-> condition,
                         guidance |-> get(guidelines.guidance, lang, guidelines.guidance["en"]),
                         red_flags |-> guidelines.red_flags,
                         symptoms |-> guidelines.symptoms ] ]
  ELSE [ raised |-> TRUE, status_code |-> 404, detail |-> "Condition not found" ]

\* get_disease_guidelines: `except Exception` encloses the whole try block, and the
\* HTTPException of the else branch is an Exception, so it is caught and replaced
get_disease_guidelines(condition, lang) ==
  LET tried == guidelines_try(condition, lang)
  IN  IF tried.raised
      THEN [ status_code |-> 500, detail |-> "Failed to fetch guidelines", body |-> None ]
      ELSE [ status_code |-> 200, detail |-> "", body |-> Some(tried.value) ]

\* ---- the state ----

VARIABLES
  pc,         \* "idle", "llm" (chat waits in client.chat.completions.create), "done"
  endpoint,   \* the handler of the request: "chat", "assess", "guidelines"; "none" when idle
  req,        \* the request body
  user_text,  \* chat: the stripped message
  lang,       \* chat: the detected language, "" before detect_lang ran
  flag,       \* chat: what emergency_red_flags returned, None before it ran
  analysis,   \* call_llm: what analyze_symptoms returned, None before it ran
  disease_info, \* call_llm: what get_disease_guidance returned
  messages,   \* call_llm: the messages handed to the external model
  completion, \* call_llm: how create ended: "content", "malformed", "raised"; "" before
  status,     \* the HTTP status of the answer, 0 before there is one
  detail,     \* the detail of the HTTPException raised to the caller, "" when none was
  response,   \* the response body, None when there is none
  calls       \* how often the request ran each step

vars == <<pc, endpoint, req, user_text, lang, flag, analysis, disease_info, messages,
          completion, status, detail, response, calls>>

NoCalls == [detect_lang |-> 0, emergency_red_flags |-> 0, analyze_symptoms |-> 0, create |-> 0]

Init ==
  /\ pc = "idle"
  /\ endpoint = "none"
  /\ req = None
  /\ user_text = <<>>
  /\ lang = ""
  /\ flag = None
  /\ analysis = None
  /\ disease_info = None
  /\ messages = <<>>
  /\ completion = ""
  /\ status = 0
  /\ detail = ""
  /\ response = None
  /\ calls = NoCalls

\* ---- POST /api/chat ----

\* the message is empty once stripped: HTTPException(400, "Empty message")
ChatEmpty ==
  /\ pc = "idle"
  /\ \E r \in ChatRequest :
       /\ strip(r.message) = <<>>
       /\ pc' = "done"
       /\ endpoint' = "chat"
       /\ req' = Some(r)
       /\ status' = 400
       /\ detail' = "Empty message"
       /\ UNCHANGED <<user_text, lang, flag, analysis, disease_info, messages, completion,
                    response, calls>>

\* a red flag is found: the emergency reply is returned at once
ChatEmergency ==
  /\ pc = "idle"
  /\ \E r \in ChatRequest :
       LET text == strip(r.message)
           l == detect_lang(text)
           f == emergency_red_flags(text)
       IN  /\ text # <<>>
           /\ f # None
           /\ pc' = "done"
           /\ endpoint' = "chat"
           /\ req' = Some(r)
           /\ user_text' = text
           /\ lang' = l
           /\ flag' = f
           /\ status' = 200
           /\ response' = Some(emergency_response(l, f[1]))
           /\ calls' = [calls EXCEPT !.detect_lang = 1, !.emergency_red_flags = 1]
           /\ UNCHANGED <<analysis, disease_info, messages, completion, detail>>

\* no red flag: call_llm runs up to client.chat.completions.create and waits in it
ChatCallLLM ==
  /\ pc = "idle"
  /\ \E r \in ChatRequest :
       LET text == strip(r.message)
           l == detect_lang(text)
           f == emergency_red_flags(text)
           a == analyze_symptoms(text, l)
           info == get_disease_guidance(a.primary_symptom, l)
       IN  /\ text # <<>>
           /\ f = None
           /\ pc' = "llm"
           /\ endpoint' = "chat"
           /\ req' = Some(r)
           /\ user_text' = text
           /\ lang' = l
           /\ flag' = f
           /\ analysis' = Some(a)
           /\ disease_info' = info
           /\ messages' = build_messages(r.user_context, info)
           /\ calls' = [calls EXCEPT !.detect_lang = 1, !.emergency_red_flags = 1,
                                     !.analyze_symptoms = 1, !.create = 1]
           /\ UNCHANGED <<completion, status, detail, response>>

\* no red flag, and call_llm fails before it analysed anything: the import of openai
\* or OpenAI(api_key=...) raises, and the except branch answers
ChatClientError ==
  /\ pc = "idle"
  /\ \E r \in ChatRequest :
       LET text == strip(r.message)
           l == detect_lang(text)
           f == emergency_red_flags(text)
       IN  /\ text # <<>>
           /\ f = None
           /\ pc' = "done"
           /\ endpoint' = "chat"
           /\ req' = Some(r)
           /\ user_text' = text
           /\ lang' = l
           /\ flag' = f
           /\ status' = 200
           /\ response' = Some(chat_response(llm_fallback(l)))
           /\ calls' = [calls EXCEPT !.detect_lang = 1, !.emergency_red_flags = 1]
           /\ UNCHANGED <<analysis, disease_info, messages, completion, detail>>

\* the external model answers with a completion whose content is a string
LLMReturn ==
  /\ pc = "llm"
  /\ \E content \in Completions :
       response' = Some(chat_response(llm_result(strip(content), analysis[1], disease_info, lang)))
  /\ completion' = "content"
  /\ pc' = "done"
  /\ status' = 200
  /\ UNCHANGED <<endpoint, req, user_text, lang, flag, analysis, disease_info, messages,
               detail, calls>>

\* the external model answers with a completion call_llm cannot read (no choices, or
\* content None): resp.choices[0].message.content.strip() raises
LLMMalformed ==
  /\ pc = "llm"
  /\ completion' = "malformed"
  /\ pc' = "done"
  /\ status' = 200
  /\ response' = Some(chat_response(llm_fallback(lang)))
  /\ UNCHANGED <<endpoint, req, user_text, lang, flag, analysis, disease_info, messages,
               detail, calls>>

\* client.chat.completions.create raises
LLMRaise ==
  /\ pc = "llm"
  /\ completion' = "raised"
  /\ pc' = "done"
  /\ status' = 200
  /\ response' = Some(chat_response(llm_fallback(lang)))
  /\ UNCHANGED <<endpoint, req, user_text, lang, flag, analysis, disease_info, messages,
               detail, calls>>

\* ---- POST /api/symptom-assessment ----

AssessSymptom ==
  /\ pc = "idle"
  /\ \E assessment \in SymptomAssessment :
       /\ pc' = "done"
       /\ endpoint' = "assess"
       /\ req' = Some(assessment)
       /\ lang' = detect_lang(assessment.symptom)
       /\ status' = 200
       /\ response' = Some(assessment_response(assessment))
       /\ calls' = [calls EXCEPT !.detect_lang = 1]
       /\ UNCHANGED <<user_text, flag, analysis, disease_info, messages, completion, detail>>

\* ---- GET /api/disease-guidelines/{condition} ----

GetDiseaseGuidelines ==
  /\ pc = "idle"
  /\ \E r \in GuidelinesRequest :
       LET answer == get_disease_guidelines(r.condition, r.lang)
       IN  /\ pc' = "done"
           /\ endpoint' = "guidelines"
           /\ req' = Some(r)
           /\ status' = answer.status_code
           /\ detail' = answer.detail
           /\ response' = answer.body
           /\ UNCHANGED <<user_text, lang, flag, analysis, disease_info, messages, completion,
                          calls>>

\* the answer is sent; nothing of the request is kept for the next one
Respond ==
  /\ pc = "done"
  /\ pc' = "idle"
  /\ endpoint' = "none"
  /\ req' = None
  /\ user_text' = <<>>
  /\ lang' = ""
  /\ flag' = None
  /\ analysis' = None
  /\ disease_info' = None
  /\ messages' = <<>>
  /\ completion' = ""
  /\ status' = 0
  /\ detail' = ""
  /\ response' = None
  /\ calls' = NoCalls

Next ==
  \/ ChatEmpty
  \/ ChatEmergency
  \/ ChatCallLLM
  \/ ChatClientError
  \/ LLMReturn
  \/ LLMMalformed
  \/ LLMRaise
  \/ AssessSymptom
  \/ GetDiseaseGuidelines
  \/ Respond

Spec == Init /\ [][Next]_vars

\* ---- what the properties speak of, stated from the tables and the str methods,
\* not through the functions of agent.py and main.py ----

\* the code points str.strip removes
Whitespace ==
  {9, 10, 11, 12, 13, 28, 29, 30, 31, 32, 133, 160, 5760, 8192, 8193, 8194, 8195, 8196, 8197,
   8198, 8199, 8200, 8201, 8202, 8232, 8233, 8239, 8287, 12288}

OnlyWhitespace(text) == \A i \in DOMAIN text : text[i] \in Whitespace

\* the text without its leading and trailing whitespace
Trimmed(text) ==
  LET keep == {i \in DOMAIN text : text[i] \notin Whitespace}
  IN  IF keep = {} THEN <<>>
      ELSE SubSeq(text, CHOOSE i \in keep : \A j \in keep : i <= j,
                        CHOOSE i \in keep : \A j \in keep : j <= i)

\* the catalog indices of the red-flag phrases the lowercased text contains
Matching(text) == {i \in DOMAIN flags : In(flags[i].kw, lower(text))}

Least(S) == CHOOSE i \in S : \A j \in S : i <= j

\* where kw first starts in the lowercased text
FirstAt(kw, text) ==
  Least({i \in 1..Len(text) : \A j \in 1..Len(kw) : i + j - 1 <= Len(text) /\ lower(text)[i + j - 1] = kw[j]})

\* how many characters of the text lie in the block lo..hi
RECURSIVE CountIn(_, _, _)
CountIn(text, lo, hi) ==
  IF Len(text) = 0 THEN 0
  ELSE (IF lo <= Head(text) /\ Head(text) <= hi THEN 1 ELSE 0) + CountIn(Tail(text), lo, hi)

Georgian(text) == CountIn(text, 4256, 4351)

Cyrillic(text) == CountIn(text, 1024, 1279)

Language(text) ==
  IF Georgian(text) > 0 /\ Georgian(text) > Cyrillic(text) THEN "ka"
  ELSE IF Cyrillic(text) > 0 THEN "ru"
  ELSE "en"

\* a chat request is being served or has been answered
InChat == endpoint = "chat" /\ pc # "idle"

\* the text detect_lang was given in this request
DetectedText == IF endpoint = "chat" THEN user_text ELSE req[1].symptom

\* ---- C1 ----

\* C1: a chat request whose trimmed message contains a red-flag phrase is answered
\* with urgency_level "emergency", and in no state of the request has the external
\* model been invoked or the symptom classification been run, whatever the language.
C1_EmergencyWithoutModel ==
  (InChat /\ Matching(Trimmed(req[1].message)) # {})
    => /\ pc = "done"
       /\ status = 200
       /\ response # None
       /\ response[1].urgency_level = Some("emergency")
       /\ calls.create = 0
       /\ calls.analyze_symptoms = 0
       /\ analysis = None
       /\ messages = <<>>

\* a red-flag request in a language other than English, written in capitals, is answered
C1_Witness ==
  /\ InChat
  /\ pc = "done"
  /\ Matching(Trimmed(req[1].message)) # {}
  /\ ~ In(flag[1], user_text)
  /\ lang # "en"
  /\ response[1].urgency_level = Some("emergency")

\* ---- C2 ----

\* C2: a chat request whose message is empty or only whitespace is answered with
\* status 400 and no reply, and nothing was processed: no language detection, no
\* red-flag scan, no classification, no call of the external model.
C2_EmptyMessageRejected ==
  (InChat /\ OnlyWhitespace(req[1].message))
    => /\ pc = "done"
       /\ status = 400
       /\ response = None
       /\ calls = NoCalls
       /\ lang = ""
       /\ messages = <<>>

\* a message of two whitespace characters, one of them not ASCII, was rejected
C2_Witness ==
  /\ InChat
  /\ Len(req[1].message) = 2
  /\ OnlyWhitespace(req[1].message)
  /\ \E i \in DOMAIN req[1].message : req[1].message[i] > 127
  /\ status = 400

\* ---- C3 ----

\* C3: when the call of the external model fails in a chat request (create raises, or
\* its completion cannot be read), the model was called exactly once, the request is
\* answered with status 200, and the reply is the fallback text of the detected
\* language with no questions, no actions, urgency "low" and no guideline info.
C3_FallbackOnModelFailure ==
  (InChat /\ completion \in {"raised", "malformed"})
    => /\ pc = "done"
       /\ calls.create = 1
       /\ status = 200
       /\ response = Some([ reply |-> fallback_responses[Language(user_text)],
                            follow_up_questions |-> Some(<<>>),
                            suggested_actions |-> Some(<<>>),
                            urgency_level |-> Some("low"),
                            disease_info |-> None ])

\* the model call failed for a Georgian text with a high-urgency keyword and a known symptom
C3_Witness ==
  /\ InChat
  /\ completion = "raised"
  /\ lang = "ka"
  /\ analysis[1].urgency_level = "moderate"
  /\ disease_info # None
  /\ response[1].urgency_level = Some("low")

\* ---- C4 ----

\* C4: emergency_red_flags returns the phrase of least catalog index among the catalog
\* phrases the lowercased text contains, wherever they stand in the text and whatever
\* their language tag, and returns None exactly when the text contains none.
C4_FirstInCatalogOrder ==
  (endpoint = "chat" /\ calls.emergency_red_flags = 1)
    => LET M == Matching(user_text)
       IN  /\ (flag = None) <=> (M = {})
           /\ M # {} => flag = Some(flags[Least(M)].kw)

\* the text contains two phrases with different language tags, and the one returned
\* stands later in the text
C4_Witness ==
  /\ endpoint = "chat"
  /\ calls.emergency_red_flags = 1
  /\ flag # None
  /\ \E i \in Matching(user_text) :
       /\ flags[i].kw # flag[1]
       /\ flags[i].lang # flags[Least(Matching(user_text))].lang
       /\ FirstAt(flags[i].kw, user_text) < FirstAt(flag[1], user_text)

\* ---- C5 ----

\* C5: detect_lang returns "ka" exactly when the text has more than zero Georgian-block
\* characters and more of them than Cyrillic-block characters, otherwise "ru" exactly
\* when it has a Cyrillic-block character, otherwise "en" (the empty text included).
C5_DetectLang ==
  calls.detect_lang = 1
    => LET G == Georgian(DetectedText)
           C == Cyrillic(DetectedText)
       IN  /\ (lang = "ka") <=> (G > 0 /\ G > C)
           /\ (lang = "ru") <=> (~ (G > 0 /\ G > C) /\ C > 0)
           /\ (lang = "en") <=> (~ (G > 0 /\ G > C) /\ C = 0)
           /\ (G = 0 /\ C = 0) => lang = "en"

\* as many Georgian as Cyrillic characters, and not zero: "ru"
C5_Witness ==
  /\ calls.detect_lang = 1
  /\ Georgian(DetectedText) = Cyrillic(DetectedText)
  /\ Georgian(DetectedText) > 0
  /\ lang = "ru"

\* ---- C6 ----

\* 'Call 112', 'Go to emergency department', 'Bring medication list'
FixedTriple == <<
  <<67, 97, 108, 108, 32, 49, 49, 50>>,
  <<71, 111, 32, 116, 111, 32, 101, 109, 101, 114, 103, 101, 110, 99, 121, 32, 100, 101, 112, 97, 114, 116, 109, 101, 110, 116>>,
  <<66, 114, 105, 110, 103, 32, 109, 101, 100, 105, 99, 97, 116, 105, 111, 110, 32, 108, 105, 115, 116>>
>>

\* C6: when a red flag is matched, the reply's suggested_actions is the fixed triple,
\* its text is the template of the language detected from the whole text (not of the
\* matched phrase's tag) with the matched phrase in it, and it has no follow-up
\* questions and no guideline info.
C6_EmergencyReply ==
  (InChat /\ flag # None)
    => LET template == emergency_templates[Language(user_text)]
           r == response[1]
       IN  /\ response # None
           /\ r.suggested_actions = Some(FixedTriple)
           /\ r.reply = template.pre \o flag[1] \o template.post
           /\ In(flag[1], r.reply)
           /\ r.follow_up_questions = None
           /\ r.disease_info = None

\* the matched phrase is tagged "en" and the text is Georgian: the reply is the Georgian one
C6_Witness ==
  /\ InChat
  /\ flag # None
  /\ flags[Least(Matching(user_text))].lang = "en"
  /\ Language(user_text) = "ka"
  /\ response[1].reply = emergency_templates.ka.pre \o flag[1] \o emergency_templates.ka.post

\* ---- C7 ----

\* C7: in every reply of the chat operation (emergency, model success, model failure),
\* follow_up_questions is absent or has at most one element.
C7_AtMostOneQuestion ==
  (InChat /\ response # None)
    => \/ response[1].follow_up_questions = None
       \/ Len(response[1].follow_up_questions[1]) <= 1

\* the model answered and the reply carries one question and three actions
C7_Witness ==
  /\ InChat
  /\ completion = "content"
  /\ response # None
  /\ Len(response[1].follow_up_questions[1]) = 1
  /\ Len(response[1].suggested_actions[1]) = 3

\* ---- C8 ----

UrgencyLevels == {"low", "moderate", "high", "emergency"}

\* C8: a finished chat request has one of two outcomes: status 400 and no reply, or
\* status 200 and a reply whose text is a string and whose urgency_level is of the
\* enumeration; the urgency_level is "emergency" exactly when the text contains a
\* red-flag phrase, and "low" or "moderate" otherwise.
C8_TwoOutcomes ==
  (endpoint = "chat" /\ pc = "done")
    => \/ status = 400 /\ response = None
       \/ /\ status = 200
          /\ response # None
          /\ response[1].reply \in Seq(Nat)
          /\ response[1].urgency_level \in {Some(u) : u \in UrgencyLevels}
          /\ (response[1].urgency_level = Some("emergency")) <=> (Matching(user_text) # {})
          /\ Matching(user_text) = {}
               => response[1].urgency_level \in {Some("low"), Some("moderate")}

\* a text with a high-urgency keyword and no red flag was answered by the model: "moderate"
C8_Witness ==
  /\ endpoint = "chat"
  /\ pc = "done"
  /\ status = 200
  /\ completion = "content"
  /\ Matching(user_text) = {}
  /\ response[1].urgency_level = Some("moderate")

\* ---- C9 ----

\* C9 as stated: both lookups return a list, and for a symptom with no entry of its
\* own each returns a default list of the language: the default actions, and
\* default questions (a list with a question in it).
C9_AsStated ==
  /\ (InChat /\ completion = "content")
       => LET symptom == analysis[1].primary_symptom
              r == response[1]
          IN  /\ r.follow_up_questions # None
              /\ r.suggested_actions # None
              /\ symptom \notin DOMAIN actions
                   => r.suggested_actions = Some(default_actions[Language(user_text)])
              /\ symptom \notin DOMAIN questions
                   => Len(r.follow_up_questions[1]) > 0
  /\ (endpoint = "assess" /\ pc = "done" /\ lower(req[1].symptom) \notin DOMAIN actions)
       => response[1].suggested_actions = default_actions[Language(req[1].symptom)]

\* C9 (amended): both lookups return a list; for a symptom with no entry of its own,
\* generate_suggested_actions returns the default actions of the language, and
\* generate_follow_up_questions returns the empty list (it has no default table).
C9_FallbackChain ==
  /\ (InChat /\ completion = "content")
       => LET symptom == analysis[1].primary_symptom
              r == response[1]
          IN  /\ r.follow_up_questions # None
              /\ r.suggested_actions # None
              /\ symptom \notin DOMAIN actions
                   => r.suggested_actions = Some(default_actions[Language(user_text)])
              /\ symptom \notin DOMAIN questions
                   => r.follow_up_questions = Some(<<>>)
  /\ (endpoint = "assess" /\ pc = "done" /\ lower(req[1].symptom) \notin DOMAIN actions)
       => response[1].suggested_actions = default_actions[Language(req[1].symptom)]

\* a Georgian text of the category cold, which has neither questions nor actions
C9_Witness ==
  /\ InChat
  /\ completion = "content"
  /\ analysis[1].primary_symptom = S_cold
  /\ lang = "ka"
  /\ response[1].follow_up_questions = Some(<<>>)
  /\ response[1].suggested_actions = Some(default_actions.ka)

\* ---- C10 ----

Range(list) == {list[i] : i \in DOMAIN list}

CategoryOrder == <<S_headache, S_fever, S_cough, S_cold, S_stomach_pain>>

OrderOf(category) == CHOOSE i \in DOMAIN CategoryOrder : CategoryOrder[i] = category

KeywordsOf(category) ==
  (CHOOSE e \in Range(symptom_keywords) : e.condition = category).keywords

Present(category, text) == \E kw \in Range(KeywordsOf(category)) : In(kw, lower(text))

\* the Georgian keyword of headache
GeorgianHeadache == KeywordsOf(S_headache)[4]

\* C10: analyze_symptoms returns the categories with a keyword in the lowercased text,
\* in the order headache, fever, cough, cold, stomach_pain; as primary symptom the
\* first of them, or "general" when there is none; as urgency "moderate" when the text
\* contains a high-urgency keyword, else "low".  A Georgian text with the Georgian
\* headache keyword and no red flag gives language "ka", primary symptom headache and
\* the Georgian guidance of the guideline entry headache.
C10_AnalyzeSymptoms ==
  (InChat /\ analysis # None)
    => LET a == analysis[1]
           found == a.found_symptoms
       IN  /\ Range(found) = {c \in Range(CategoryOrder) : Present(c, user_text)}
           /\ \A i, j \in DOMAIN found : i < j => OrderOf(found[i]) < OrderOf(found[j])
           /\ a.primary_symptom = IF Len(found) = 0 THEN S_general ELSE found[1]
           /\ a.urgency_level =
                IF \E kw \in Range(high_urgency_keywords) : In(kw, lower(user_text))
                THEN "moderate" ELSE "low"
           /\ (In(GeorgianHeadache, user_text) /\ Language(user_text) = "ka")
                => /\ lang = "ka"
                   /\ a.primary_symptom = S_headache
                   /\ disease_info # None
                   /\ disease_info[1].condition = S_headache
                   /\ disease_info[1].guidance = DISEASE_GUIDELINES[3].guidance.ka

\* two categories found, the second of them standing first in the text
C10_Witness ==
  /\ InChat
  /\ analysis # None
  /\ Len(analysis[1].found_symptoms) = 2
  /\ \E k1 \in Range(KeywordsOf(analysis[1].found_symptoms[1])) :
       \E k2 \in Range(KeywordsOf(analysis[1].found_symptoms[2])) :
         /\ In(k1, lower(user_text))
         /\ In(k2, lower(user_text))
         /\ FirstAt(k2, user_text) < FirstAt(k1, user_text)

\* ---- C11 ----

\* the keys of the guideline table
GuidelineKeys == {DISEASE_GUIDELINES[i].condition : i \in DOMAIN DISEASE_GUIDELINES}

GuidelineOf(key) ==
  DISEASE_GUIDELINES[CHOOSE i \in DOMAIN DISEASE_GUIDELINES : DISEASE_GUIDELINES[i].condition = key]

GuidelinesDone == endpoint = "guidelines" /\ pc = "done"

\* C11: GET /api/disease-guidelines/{condition} answers a condition whose lowercased
\* name is no key of the guideline table with 404 "Condition not found"; it answers 500
\* "Failed to fetch guidelines" only when the lookup itself failed, which it does for no
\* condition; and it answers a known condition with its guidance in the requested
\* language (English when the entry has none in it), its red flags and its symptoms.
C11_NotFoundIs404 ==
  GuidelinesDone
    => LET key == lower(req[1].condition)
       IN  /\ key \notin GuidelineKeys
             => /\ status = 404
                /\ detail = "Condition not found"
                /\ response = None
           /\ status # 500
           /\ key \in GuidelineKeys
             => /\ status = 200
                /\ response = Some([ condition |-> req[1].condition,
                                     guidance |-> IF req[1].lang \in DOMAIN GuidelineOf(key).guidance
                                                  THEN GuidelineOf(key).guidance[req[1].lang]
                                                  ELSE GuidelineOf(key).guidance.en,
                                     red_flags |-> GuidelineOf(key).red_flags,
                                     symptoms |-> GuidelineOf(key).symptoms ])

====
